---- MODULE Spec2Model ----
(***************************************************************************)
(* Conflict-free scheduling engine: the four solvers (graph colouring,     *)
(* interval DP, backtracking, genetic) and the dispatcher of main.py.      *)
(*                                                                         *)
(* An activity is a record [id, start, end, weight]; the display fields    *)
(* name and room are never read by a solver and are left out.  Weights are *)
(* floats in the source and naturals here.  Python indices are 0-based;    *)
(* sequences here are 1-based, so index i of the source is i + 1 here and  *)
(* "no index" (-1 in the source) is 0.                                     *)
(***************************************************************************)
EXTENDS Integers, Sequences, FiniteSets, TLC

\* ------------------------------------------------------------------ bounds
MaxN == 3
NegTime == 1
MaxTime == 2
MaxWeight == 2
MaxPop == 2
MaxGen == 2
\* The longest list given to the genetic solver and to the dispatcher
MaxGaN == 2
\* The largest weight given to the genetic and the constrained solver
MaxLightWeight == 1
\* Concurrent invocations: the calls the first caller makes one after
\* another, the longest list and the latest time of their inputs, and the
\* number of states of the shared random generator that are told apart
MaxCalls == 2
MaxServiceN == 2
MaxServiceTime == 2
RngPeriod == 3

\* The lists given to welsh_powell_coloring on its own: their length, their
\* latest start and the duration of every activity
MaxWelshN == 6

MaxWelshStart == 5

WelshDuration == 2

\* The calls of schedule_with_time_windows: the longest activity list and
\* the most time windows
MaxWindowN == 2

MaxWindows == 2

\* ----------------------------------------------------------------- helpers
Max(a, b) == IF a >= b THEN a ELSE b

Min(a, b) == IF a <= b THEN a ELSE b

SetMax(S) == CHOOSE x \in S : \A y \in S : y <= x

RECURSIVE SumSeq(_)
SumSeq(s) == IF s = <<>> THEN 0 ELSE Head(s) + SumSeq(Tail(s))

Reverse(s) == [i \in 1..Len(s) |-> s[Len(s) + 1 - i]]

Prefix(s, k) == SubSeq(s, 1, Min(k, Len(s)))

Range(s) == {s[i] : i \in 1..Len(s)}

\* sum(act.weight for act in acts)
TotalWeight(acts) == SumSeq([i \in 1..Len(acts) |-> acts[i].weight])

\* Python's sorted()/list.sort() with a key: a stable sort.  key[i] is the
\* key of s[i]; elements with equal keys keep their order.
StableSort(s, key) ==
    LET n == Len(s)
        Rank(i) == Cardinality({j \in 1..n :
                       key[j] < key[i] \/ (key[j] = key[i] /\ j < i)})
    IN  [k \in 1..n |-> s[CHOOSE i \in 1..n : Rank(i) = k - 1]]

\* sorted(acts, key=lambda a: a.start)
SortByStart(acts) == StableSort(acts, [i \in 1..Len(acts) |-> acts[i].start])

\* sorted(acts, key=lambda a: a.end)
SortByEnd(acts) == StableSort(acts, [i \in 1..Len(acts) |-> acts[i].end])

\* ------------------------------------------------------ conflict predicate
\* has_conflict with closed intervals: touching activities conflict
has_conflict_closed(a1, a2) == ~(a1.end < a2.start \/ a2.end < a1.start)

\* ConflictFreeScheduler.has_conflict
has_conflict(a1, a2) == ~(a1.end <= a2.start \/ a2.end <= a1.start)

\* GraphColoringScheduler.has_time_conflict
has_time_conflict(a1, a2) == ~(a1.end <= a2.start \/ a2.end <= a1.start)

\* Activity.overlaps_with
overlaps_with(self, other) == ~(self.end <= other.start \/ other.end <= self.start)

\* ------------------------------------------------------- interval DP solver
\* find_latest_non_conflicting with a strict comparison
find_latest_strict(acts, index) ==
    LET S == {i \in 1..(index - 1) : acts[i].end < acts[index].start}
    IN  IF S = {} THEN 0 ELSE SetMax(S)

\* for i in range(index - 1, -1, -1): first i with acts[i].end <= acts[index].start
find_latest_non_conflicting(acts, index) ==
    LET S == {i \in 1..(index - 1) : acts[i].end <= acts[index].start}
    IN  IF S = {} THEN 0 ELSE SetMax(S)

\* latest_non_conflicting, one entry per index of the end-sorted list
LatestTable(acts) == [i \in 1..Len(acts) |-> find_latest_non_conflicting(acts, i)]

\* dp(index): the memo only caches, the value is that of the recurrence
RECURSIVE dp(_, _, _)
dp(acts, lnc, index) ==
    IF index < 1 THEN 0
    ELSE LET without_current == dp(acts, lnc, index - 1)
             with_current == acts[index].weight
                 + (IF lnc[index] >= 1 THEN dp(acts, lnc, lnc[index]) ELSE 0)
         IN  Max(without_current, with_current)

\* The inclusion test with a strict comparison: a tie leaves the activity out
DpIncludesStrict(with_current, without_current) == with_current > without_current

\* The inclusion test of the reconstruction loop
DpIncludes(with_current, without_current) == with_current >= without_current

\* The reconstruction loop from index i downward, in append order
RECURSIVE DpReconstruct(_, _, _)
DpReconstruct(acts, lnc, i) ==
    IF i < 1 THEN <<>>
    ELSE LET without_current == IF i > 1 THEN dp(acts, lnc, i - 1) ELSE 0
             with_current == acts[i].weight
                 + (IF lnc[i] >= 1 THEN dp(acts, lnc, lnc[i]) ELSE 0)
         IN  IF DpIncludes(with_current, without_current)
             THEN <<acts[i]>> \o DpReconstruct(acts, lnc, lnc[i])
             ELSE DpReconstruct(acts, lnc, i - 1)

\* The body of solve_weighted_activity_selection after the empty check
DpBody(acts) ==
    LET sorted == SortByEnd(acts)
        lnc == LatestTable(sorted)
    IN  Reverse(DpReconstruct(sorted, lnc, Len(sorted)))

\* DynamicProgrammingScheduler.solve_weighted_activity_selection
solve_weighted_activity_selection(acts) ==
    IF acts = <<>> THEN <<>> ELSE DpBody(acts)

\* --------------------------------------------------- graph colouring solver
\* build_conflict_graph: id -> list of conflicting ids, in append order.
\* The pair loop (i < j) appends to an id's list in increasing position.
RECURSIVE NeighbourList(_, _, _)
NeighbourList(acts, p, j) ==
    IF j > Len(acts) THEN <<>>
    ELSE (IF j # p /\ has_time_conflict(acts[Min(p, j)], acts[Max(p, j)])
          THEN <<acts[j].id>> ELSE <<>>) \o NeighbourList(acts, p, j + 1)

\* The graph with line 146 left out: each edge listed at its earlier end only
build_conflict_graph_forward(acts) ==
    [id \in {acts[i].id : i \in 1..Len(acts)} |->
        LET p == CHOOSE q \in 1..Len(acts) : acts[q].id = id
        IN  NeighbourList(acts, p, p + 1)]

build_conflict_graph(acts) ==
    [id \in {acts[i].id : i \in 1..Len(acts)} |->
        NeighbourList(acts, CHOOSE p \in 1..Len(acts) : acts[p].id = id, 1)]

\* The number of neighbour colours instead of the smallest unused colour
FreeByCount(used) == Cardinality(used)

\* color = 0; while color in neighbor_colors: color += 1
SmallestFree(used) == CHOOSE c \in 0..Cardinality(used) :
    c \notin used /\ \A d \in 0..(c - 1) : d \in used

\* assign_colors after the first k activities: a function id -> colour
RECURSIVE ColorPrefix(_, _, _)
ColorPrefix(acts, graph, k) ==
    IF k = 0 THEN <<>>
    ELSE LET color_map == ColorPrefix(acts, graph, k - 1)
             nb == graph[acts[k].id]
             neighbor_colors == {color_map[nb[i]] :
                 i \in {x \in 1..Len(nb) : nb[x] \in DOMAIN color_map}}
         IN  (acts[k].id :> SmallestFree(neighbor_colors)) @@ color_map

assign_colors(acts, graph) == ColorPrefix(acts, graph, Len(acts))

\* color_groups.items(): colours in the order of their first activity
RECURSIVE ColorOrder(_, _, _)
ColorOrder(acts, color_assignment, i) ==
    IF i > Len(acts) THEN <<>>
    ELSE LET c == color_assignment[acts[i].id]
         IN  (IF c >= 0 /\ \A j \in 1..(i - 1) : color_assignment[acts[j].id] # c
              THEN <<c>> ELSE <<>>) \o ColorOrder(acts, color_assignment, i + 1)

\* color_groups[color] as appended, without group.sort
ColorGroupUnsorted(acts, color_assignment, c) ==
    SelectSeq(acts, LAMBDA a : color_assignment[a.id] = c)

\* color_groups[color], sorted by original start time
ColorGroup(acts, color_assignment, c) ==
    SortByStart(SelectSeq(acts, LAMBDA a : color_assignment[a.id] = c))

RECURSIVE Flatten(_)
Flatten(ss) == IF ss = <<>> THEN <<>> ELSE Head(ss) \o Flatten(Tail(ss))

\* The gap added after each placed activity
SlotGap == 1

\* The serialisation loop: place the activities one after another
RECURSIVE Serialize(_, _)
Serialize(order, current_time) ==
    IF order = <<>> THEN <<>>
    ELSE LET a == Head(order)
             scheduled == [id |-> a.id, start |-> current_time,
                           end |-> current_time + (a.end - a.start),
                           weight |-> a.weight]
         IN  <<scheduled>> \o Serialize(Tail(order), scheduled.end + SlotGap)

\* The grouping and serialisation of coloring_schedule, given the colours
ScheduleGroups(acts, color_assignment) ==
    LET colors == ColorOrder(acts, color_assignment, 1)
        groups == [k \in 1..Len(colors) |-> ColorGroup(acts, color_assignment, colors[k])]
    IN  Serialize(Flatten(groups), 0)

\* The body of coloring_schedule after the empty check
ColoringBody(acts) ==
    LET conflict_graph == build_conflict_graph(acts)
        color_assignment == assign_colors(acts, conflict_graph)
    IN  ScheduleGroups(acts, color_assignment)

\* GraphColoringScheduler.coloring_schedule
coloring_schedule(acts) == IF acts = <<>> THEN <<>> ELSE ColoringBody(acts)

\* degree_list.sort(reverse=True): the ids by (degree, id), largest first
WelshOrder(acts, graph) ==
    LET n == Len(acts)
        Degree(i) == Len(graph[acts[i].id])
        Above(i) == Cardinality({j \in 1..n :
                        \/ Degree(j) > Degree(i)
                        \/ (Degree(j) = Degree(i) /\ acts[j].id > acts[i].id)})
    IN  [k \in 1..n |-> acts[CHOOSE i \in 1..n : Above(i) = k - 1].id]

\* The colors dict of welsh_powell_coloring after the first k ids of the order
RECURSIVE WelshPrefix(_, _, _)
WelshPrefix(order, graph, k) ==
    IF k = 0 THEN <<>>
    ELSE LET colors == WelshPrefix(order, graph, k - 1)
             nb == graph[order[k]]
             used_colors == {colors[nb[i]] :
                 i \in {x \in 1..Len(nb) : nb[x] \in DOMAIN colors}}
         IN  (order[k] :> SmallestFree(used_colors)) @@ colors

\* max_color after the loop: it starts at 0
MaxColor(colors) == SetMax({0} \cup {colors[id] : id \in DOMAIN colors})

\* return max_color, without the + 1
ColorCountOff(max_color) == max_color

\* return max_color + 1
ColorCount(max_color) == max_color + 1

\* The body of welsh_powell_coloring after the empty check: its locals
WelshBody(acts) ==
    LET conflict_graph == build_conflict_graph(acts)
        order == WelshOrder(acts, conflict_graph)
        colors == WelshPrefix(order, conflict_graph, Len(order))
    IN  [conflict_graph |-> conflict_graph, order |-> order, colors |-> colors,
         max_color |-> MaxColor(colors)]

\* GraphColoringScheduler.welsh_powell_coloring
welsh_powell_coloring(acts) ==
    IF acts = <<>> THEN 0 ELSE ColorCount(WelshBody(acts).max_color)

\* ------------------------------------------------------ backtracking solver
\* A first call with no lower limit within the times explored
InitialLastEndEarliest == 0 - NegTime

\* backtrack(0, [], 0.0, 0): the last_end_time of the first call
InitialLastEnd == 0

\* The update test with a tie counted as an improvement
ImprovesOnTie(current_weight, best_weight) == current_weight >= best_weight

\* if current_weight > best_weight
Improves(current_weight, best_weight) == current_weight > best_weight

\* remaining_weight = sum(act.weight for act in activities[index:])
RemainingWeight(acts, index) == TotalWeight(SubSeq(acts, index, Len(acts)))

\* The pruning test without the remaining weight
PrunesEager(current_weight, remaining_weight, best_weight) ==
    current_weight <= best_weight

\* if current_weight + remaining_weight <= best_weight: return
Prunes(current_weight, remaining_weight, best_weight) ==
    current_weight + remaining_weight <= best_weight

\* The take test on the wrong field
CanTakeByEnd(current_activity, last_end_time) == current_activity.end >= last_end_time

\* if current_activity.start >= last_end_time
CanTake(current_activity, last_end_time) == current_activity.start >= last_end_time

\* backtrack() of optimal_schedule as a function: the nonlocal pair
\* (best_solution, best_weight) is passed in and handed back
RECURSIVE backtrack(_, _, _, _, _, _)
backtrack(acts, index, current_solution, current_weight, last_end_time, best) ==
    IF index = Len(acts) + 1
    THEN IF Improves(current_weight, best.best_weight)
         THEN [best_solution |-> current_solution, best_weight |-> current_weight]
         ELSE best
    ELSE IF Prunes(current_weight, RemainingWeight(acts, index), best.best_weight)
    THEN best
    ELSE LET current_activity == acts[index]
             skipped == backtrack(acts, index + 1, current_solution, current_weight,
                                  last_end_time, best)
         IN  IF CanTake(current_activity, last_end_time)
             THEN backtrack(acts, index + 1, Append(current_solution, current_activity),
                            current_weight + current_activity.weight,
                            current_activity.end, skipped)
             ELSE skipped

\* _is_feasible with the short-list exit one too wide
is_feasible_short(acts) ==
    IF Len(acts) <= 2 THEN TRUE
    ELSE LET sorted == SortByStart(acts)
         IN  \A i \in 1..(Len(sorted) - 1) : ~(sorted[i].end > sorted[i + 1].start)

\* BacktrackingScheduler._is_feasible
is_feasible(acts) ==
    IF Len(acts) <= 1 THEN TRUE
    ELSE LET sorted == SortByStart(acts)
         IN  \A i \in 1..(Len(sorted) - 1) : ~(sorted[i].end > sorted[i + 1].start)

\* valid_activities = [act for act in activities if act.id not in forbidden]
ValidActivities(acts, forbidden) == SelectSeq(acts, LAMBDA a : a.id \notin forbidden)

\* mandatory_acts = [act for act in valid_activities if act.id in mandatory]
MandatoryActs(valid, mandatory) == SelectSeq(valid, LAMBDA a : a.id \in mandatory)

\* The coverage test as an inclusion the wrong way round
CoversMandatorySubset(mandatory_included, mandatory) == mandatory_included \subseteq mandatory

\* if mandatory_included == mandatory_activities
CoversMandatory(mandatory_included, mandatory) == mandatory_included = mandatory

\* One activation of backtrack(): its arguments and where it stands
\* ("enter": at its first line, "skip": inside the call of option 1,
\*  "take": inside the call of option 2)
Frame(index, current_weight, last_end_time, mandatory_included) ==
    [index |-> index, current_weight |-> current_weight,
     last_end_time |-> last_end_time, mandatory_included |-> mandatory_included,
     at |-> "enter"]

\* ------------------------------------------------------------ genetic solver
\* _is_conflict_free with touching neighbours counted as a conflict
is_conflict_free_closed(acts) ==
    IF Len(acts) <= 1 THEN TRUE
    ELSE LET sorted == SortByStart(acts)
         IN  \A i \in 1..(Len(sorted) - 1) : ~(sorted[i].end >= sorted[i + 1].start)

\* Individual._is_conflict_free
is_conflict_free(acts) ==
    IF Len(acts) <= 1 THEN TRUE
    ELSE LET sorted == SortByStart(acts)
         IN  \A i \in 1..(Len(sorted) - 1) : ~(sorted[i].end > sorted[i + 1].start)

\* Individual._count_conflicts
count_conflicts(acts) ==
    Cardinality({p \in (1..Len(acts)) \X (1..Len(acts)) :
        /\ p[1] < p[2]
        /\ ~(acts[p[1]].end <= acts[p[2]].start \/ acts[p[2]].end <= acts[p[1]].start)})

\* The penalty per conflict of an invalid selection
ConflictPenalty == 10

\* Individual.get_selected_activities
get_selected_activities(acts, chromosome) ==
    LET idx == SelectSeq([i \in 1..Len(acts) |-> i], LAMBDA i : chromosome[i])
    IN  [k \in 1..Len(idx) |-> acts[idx[k]]]

\* Individual._evaluate: the individual with its cached fitness and validity
Evaluate(acts, chromosome) ==
    LET selected_activities == get_selected_activities(acts, chromosome)
        valid == is_conflict_free(selected_activities)
    IN  [chromosome |-> chromosome,
         is_valid |-> valid,
         fitness |-> IF valid THEN TotalWeight(selected_activities)
                     ELSE TotalWeight(selected_activities)
                          - count_conflicts(selected_activities) * ConflictPenalty]

\* The greedy order by weight alone
GreedyOrderByWeight(acts) ==
    StableSort(acts, [i \in 1..Len(acts) |-> 0 - acts[i].weight])

\* sorted(acts, key=lambda a: a.weight / max(a.end - a.start, 1), reverse=True)
\* The ratios are compared by cross-multiplication.
GreedyOrder(acts) ==
    LET n == Len(acts)
        d(i) == Max(acts[i].end - acts[i].start, 1)
        Higher(j, i) == acts[j].weight * d(i) > acts[i].weight * d(j)
        Same(j, i) == acts[j].weight * d(i) = acts[i].weight * d(j)
        Rank(i) == Cardinality({j \in 1..n : Higher(j, i) \/ (Same(j, i) /\ j < i)})
    IN  [k \in 1..n |-> acts[CHOOSE i \in 1..n : Rank(i) = k - 1]]

\* The selection loop of _greedy_fallback over the ratio-sorted list
RECURSIVE GreedySelect(_, _)
GreedySelect(order, selected) ==
    IF order = <<>> THEN selected
    ELSE LET activity == Head(order)
             conflicts == \E k \in 1..Len(selected) :
                 ~(activity.end <= selected[k].start \/ selected[k].end <= activity.start)
         IN  GreedySelect(Tail(order),
                 IF conflicts THEN selected ELSE Append(selected, activity))

\* GeneticAlgorithmScheduler._greedy_fallback
greedy_fallback(acts) ==
    IF acts = <<>> THEN <<>> ELSE GreedySelect(GreedyOrder(acts), <<>>)

\* population.sort(key=lambda x: x.fitness, reverse=True)
SortByFitness(population) ==
    StableSort(population, [i \in 1..Len(population) |-> 0 - population[i].fitness])

\* _tournament_selection's default tournament_size
TournamentSize == 3

\* _tournament_selection: a random sample, the fittest of it (the sample is
\* in random order and the sort is stable, so any fittest member can win)
tournament_selection(population) ==
    LET k == Min(TournamentSize, Len(population))
        samples == {S \in SUBSET (1..Len(population)) : Cardinality(S) = k}
    IN  {population[i] : i \in UNION {{i \in S : \A j \in S :
            population[j].fitness <= population[i].fitness} : S \in samples}}

\* _crossover at crossover_point: the two children, evaluated
crossover(acts, parent1, parent2, crossover_point) ==
    LET n == Len(parent1.chromosome)
        child1_chromosome == SubSeq(parent1.chromosome, 1, crossover_point)
            \o SubSeq(parent2.chromosome, crossover_point + 1, n)
        child2_chromosome == SubSeq(parent2.chromosome, 1, crossover_point)
            \o SubSeq(parent1.chromosome, crossover_point + 1, n)
    IN  <<Evaluate(acts, child1_chromosome), Evaluate(acts, child2_chromosome)>>

\* random.randint(1, len(parent1.chromosome) - 1): empty when the length is 1
CrossoverPoints(n) == 1..(n - 1)

\* _mutate without individual._evaluate(): the cached values stay
mutate_stale(acts, individual, mutation_point) ==
    [individual EXCEPT !.chromosome = [individual.chromosome EXCEPT ![mutation_point] = ~@]]

\* _mutate at mutation_point: flip the bit, re-evaluate
mutate(acts, individual, mutation_point) ==
    Evaluate(acts, [individual.chromosome EXCEPT ![mutation_point] = ~@])

\* random.random() < rate, with rates and draws in tenths; a draw is in [0, 1)
RandomDraws == {0, 9}

\* best_fitness = float('-inf') is <<>>, a number f is <<f>>
ExceedsBest(fitness, best_fitness) ==
    best_fitness = <<>> \/ fitness > best_fitness[1]

\* for individual in population: if individual.fitness > best_fitness and
\* individual.is_valid: ...   (best is <<best_individual, best_fitness>>, each
\* an empty or one-element sequence)
RECURSIVE TrackBest(_, _, _)
TrackBest(population, i, best) ==
    IF i > Len(population) THEN best
    ELSE LET individual == population[i]
         IN  TrackBest(population, i + 1,
                 IF ExceedsBest(individual.fitness, best[2]) /\ individual.is_valid
                 THEN <<(<<individual>>), (<<individual.fitness>>)>>
                 ELSE best)

\* new_population kept whole, without the slice
TrimNone(new_population, population_size) == new_population

\* population = new_population[:config.population_size]
Trim(new_population, population_size) == Prefix(new_population, population_size)

\* The copies taken from the bottom of the ranking
EliteOfWorst(sorted_population, elite_size) ==
    Prefix(Reverse(sorted_population), elite_size)

\* The elite copies: for i in range(elite_size): if i < len(population)
EliteOf(sorted_population, elite_size) == Prefix(sorted_population, elite_size)

\* The return statement of evolve_schedule
FinalSchedule(acts, best_individual) ==
    IF best_individual # <<>> /\ best_individual[1].is_valid
    THEN get_selected_activities(acts, best_individual[1].chromosome)
    ELSE greedy_fallback(acts)

\* One pass of the while loop of evolve_schedule: every pair of children the
\* random choices can give; none when crossover is drawn on a one-gene chromosome
BreedOutcomes(acts, cfg, population) ==
    LET Mutants(child, r) ==
            IF r < cfg.mutation_rate
            THEN {mutate(acts, child, m) : m \in 1..Len(acts)}
            ELSE {child}
        Pairs(parent1, parent2, r1) ==
            IF r1 < cfg.crossover_rate
            THEN {crossover(acts, parent1, parent2, cp) : cp \in CrossoverPoints(Len(acts))}
            ELSE {<<parent1, parent2>>}
        Selected == tournament_selection(population)
    IN  UNION {UNION {Mutants(pair[1], d[2]) \X Mutants(pair[2], d[3]) :
                          pair \in Pairs(pp[1], pp[2], d[1])} :
                   pp \in Selected \X Selected,
                   d \in RandomDraws \X RandomDraws \X RandomDraws}

\* --------------------------------------------------------------- dispatcher
\* GAConfig(50, 100, 0.8, 0.1, 5) of genetic_algorithm_schedule, rates in tenths
DefaultGAConfig ==
    [population_size |-> 50, generations |-> 100, crossover_rate |-> 8,
     mutation_rate |-> 1, elite_size |-> 5]

\* The chain with graph colouring as the default of an unknown token
DispatchDefault(algorithm) ==
    IF algorithm = "dynamic-prog" THEN "solve_weighted_activity_selection"
    ELSE IF algorithm = "backtracking" THEN "optimal_schedule"
    ELSE IF algorithm = "genetic" THEN "evolve_schedule"
    ELSE "coloring_schedule"

\* The if/elif chain of run_single_algorithm through the facade methods of
\* ConflictFreeScheduler: the solver a token names, "" for any other token
Dispatch(algorithm) ==
    IF algorithm = "graph-coloring" THEN "coloring_schedule"
    ELSE IF algorithm = "dynamic-prog" THEN "solve_weighted_activity_selection"
    ELSE IF algorithm = "backtracking" THEN "optimal_schedule"
    ELSE IF algorithm = "genetic" THEN "evolve_schedule"
    ELSE ""

\* The empty check as a test for None, which an empty list is not
NotActivitiesNone(acts) == FALSE

\* if not activities: return []
NotActivities(acts) == acts = <<>>

\* BacktrackingScheduler.optimal_schedule as a function of its argument
optimal_schedule(acts) ==
    IF NotActivities(acts) THEN <<>>
    ELSE backtrack(SortByStart(acts), 1, <<>>, 0, InitialLastEnd,
                   [best_solution |-> <<>>, best_weight |-> 0]).best_solution

\* backtrack() of find_all_valid_schedules as a function: all_schedules is
\* passed in and handed back with the schedules appended in visiting order
RECURSIVE all_backtrack(_, _, _, _, _)
all_backtrack(acts, index, current_solution, last_end_time, all_schedules) ==
    IF index = Len(acts) + 1
    THEN Append(all_schedules, current_solution)
    ELSE LET current_activity == acts[index]
             skipped == all_backtrack(acts, index + 1, current_solution,
                                      last_end_time, all_schedules)
         IN  IF CanTake(current_activity, last_end_time)
             THEN all_backtrack(acts, index + 1,
                                Append(current_solution, current_activity),
                                current_activity.end, skipped)
             ELSE skipped

\* BacktrackingScheduler.find_all_valid_schedules
find_all_valid_schedules(acts) ==
    IF NotActivities(acts) THEN <<<<>>>>
    ELSE all_backtrack(SortByStart(acts), 1, <<>>, InitialLastEnd, <<>>)

\* activity.start >= window_start and activity.end <= window_end, for at
\* least one window
FitsWindow(activity, time_windows) ==
    \E w \in 1..Len(time_windows) :
        /\ activity.start >= time_windows[w][1]
        /\ activity.end <= time_windows[w][2]

\* BacktrackingScheduler.schedule_with_time_windows
schedule_with_time_windows(acts, time_windows) ==
    IF NotActivities(acts) \/ time_windows = <<>> THEN <<>>
    ELSE optimal_schedule(SelectSeq(acts, LAMBDA a : FitsWindow(a, time_windows)))

\* -------------------------------------------------------------------- state
VARIABLES
    activities,            \* the caller's activity list
    entry,                 \* the function the caller calls
    token,                 \* run_single_algorithm's algorithm token
    mandatory_activities,  \* schedule_with_constraints' mandatory ids
    forbidden_activities,  \* schedule_with_constraints' forbidden ids
    time_windows,          \* schedule_with_time_windows' (start, end) windows
    config,                \* evolve_schedule's GAConfig
    solver,                \* the solver that is running
    invoked,               \* the solver entry points called so far, in order
    pc,                    \* where the call stands
    steps,                 \* search calls, solver bodies and generations run
    bt,                    \* the locals of the backtracking solver
    ga,                    \* the locals of the genetic solver
    result,                \* what the solver returned
    output,                \* what run_single_algorithm returned
    gc,                    \* the locals of the colouring functions and
                           \* what welsh_powell_coloring returned
    calls,                 \* concurrent invocations: per caller, the solver,
                           \* its input, its position, its locals, its result
    rng,                   \* the state of the random module's one generator
    rng_users,             \* the callers whose invocation has drawn from it
    budget                 \* the calls each caller may still make

vars == <<activities, entry, token, mandatory_activities, forbidden_activities,
          time_windows, config, solver, invoked, pc, steps, bt, ga, result, output, gc,
          calls, rng, rng_users, budget>>

service == <<calls, rng, rng_users, budget>>

single == <<activities, entry, token, mandatory_activities, forbidden_activities,
            time_windows, config, solver, invoked, pc, steps, bt, ga, result, output, gc>>

args == <<activities, entry, token, mandatory_activities, forbidden_activities,
          time_windows>>

params == <<entry, token, mandatory_activities, forbidden_activities, time_windows>>

\* The list rebound or rebuilt by the solver written through to the caller,
\* as activities.sort() or an assignment to a record's field would do
CallerListAliased(acts, local) == local

\* The caller's list after a solver bound `local` (a sorted or filtered copy,
\* or the retimed records) to a name of its own: sorted(), the list
\* comprehensions and Activity(...) build new objects, the argument is only read
CallerList(acts, local) == acts

\* ------------------------------------------------------------------- inputs
Times == (0 - NegTime)..MaxTime

Shapes == {t \in Times \X Times \X (0..MaxWeight) : t[1] < t[2]}

\* Well-formed lists of n activities: unique ids, start < end, weight >= 0
ListsOfLen(n) ==
    {[i \in 1..n |-> [id |-> i, start |-> t[i][1], end |-> t[i][2], weight |-> t[i][3]]] :
        t \in [1..n -> Shapes]}

ActivityLists == UNION {ListsOfLen(n) : n \in 0..MaxN}

Ids == 1..MaxN

Tokens == {"graph-coloring", "dynamic-prog", "backtracking", "genetic", "run-all", "preserve"}

Rates == {0, 5, 10}

\* Activity.weight when the caller gives none
DefaultWeight == 1

Configs ==
    {c \in [population_size : 1..MaxPop, generations : 1..MaxGen,
            crossover_rate : Rates, mutation_rate : Rates, elite_size : 0..MaxPop] :
        c.elite_size <= c.population_size}

NoConfig ==
    [population_size |-> 0, generations |-> 0, crossover_rate |-> 0,
     mutation_rate |-> 0, elite_size |-> 0]

BtIdle ==
    [acts |-> <<>>, stack |-> <<>>, current_solution |-> <<>>,
     best_solution |-> <<>>, best_weight |-> 0]

GaIdle ==
    [population |-> <<>>, new_population |-> <<>>, generation |-> 0,
     best_individual |-> <<>>, best_fitness |-> <<>>]

GcIdle ==
    [conflict_graph |-> <<>>, color_assignment |-> <<>>, colors |-> <<>>, count |-> 0]

Callers == 1..2

CallIdle ==
    [solver |-> "", activities |-> <<>>, pc |-> "idle", local |-> <<>>, result |-> <<>>]

Solvers == {"coloring_schedule", "solve_weighted_activity_selection",
            "optimal_schedule", "schedule_with_constraints", "evolve_schedule"}

\* The inputs explored for each entry point
InputsOf(e) ==
    IF e = "evolve_schedule"
    THEN {a \in ActivityLists : /\ Len(a) <= MaxGaN
                                /\ \A i \in 1..Len(a) : /\ a[i].start >= 0
                                                        /\ a[i].weight <= MaxLightWeight}
    ELSE IF e = "schedule_with_constraints"
    THEN {a \in ActivityLists : \A i \in 1..Len(a) : a[i].weight <= MaxLightWeight}
    ELSE IF e = "run_single_algorithm"
    THEN {a \in ActivityLists : Len(a) <= MaxGaN}
    ELSE ActivityLists

\* A caller calls run_single_algorithm with a token, or a solver directly
Init ==
    /\ entry \in Solvers \cup {"run_single_algorithm", "welsh_powell_coloring"}
    /\ activities \in InputsOf(entry)
    /\ token \in (IF entry = "run_single_algorithm" THEN Tokens ELSE {""})
    /\ mandatory_activities \in
           (IF entry = "schedule_with_constraints" THEN SUBSET Ids ELSE {{}})
    /\ forbidden_activities \in
           (IF entry = "schedule_with_constraints" THEN SUBSET Ids ELSE {{}})
    /\ time_windows = <<>>
    /\ config \in (IF entry = "evolve_schedule" THEN Configs ELSE {NoConfig})
    /\ solver = (IF entry = "run_single_algorithm" THEN "" ELSE entry)
    /\ invoked = (IF entry = "run_single_algorithm" THEN <<>> ELSE <<entry>>)
    /\ pc = (IF entry = "run_single_algorithm" THEN "call" ELSE "enter")
    /\ steps = 0
    /\ bt = BtIdle
    /\ ga = GaIdle
    /\ result = <<>>
    /\ output = <<>>
    /\ gc = GcIdle
    /\ calls = [p \in Callers |-> CallIdle]
    /\ rng = 0
    /\ rng_users = {}
    /\ budget = [p \in Callers |-> 0]

\* ------------------------------------------------------- dispatcher actions
run_single_algorithm ==
    /\ pc = "call"
    /\ entry = "run_single_algorithm"
    /\ IF Dispatch(token) # ""
       THEN /\ solver' = Dispatch(token)
            /\ config' = (IF Dispatch(token) = "evolve_schedule"
                          THEN DefaultGAConfig ELSE config)
            /\ invoked' = Append(invoked, Dispatch(token))
            /\ pc' = "enter"
            /\ UNCHANGED output
       ELSE /\ output' = <<>>
            /\ pc' = "done"
            /\ UNCHANGED <<solver, config, invoked>>
    /\ UNCHANGED <<args, service, gc, steps, bt, ga, result>>

\* return result, once the solver has returned
DispatchReturn ==
    /\ pc = "returned"
    /\ entry = "run_single_algorithm"
    /\ output' = result
    /\ pc' = "done"
    /\ UNCHANGED <<args, service, gc, config, solver, invoked, steps, bt, ga, result>>

\* ------------------------------------------------- graph colouring actions
ColoringEnter ==
    /\ pc = "enter"
    /\ solver = "coloring_schedule"
    /\ IF NotActivities(activities)
       THEN result' = <<>> /\ pc' = "returned"
       ELSE pc' = "coloring" /\ UNCHANGED result
    /\ UNCHANGED <<args, service, gc, config, solver, invoked, steps, bt, ga, output>>

ColoringRun ==
    /\ pc = "coloring"
    /\ result' = ColoringBody(activities)
    /\ LET conflict_graph == build_conflict_graph(activities)
       IN  gc' = [gc EXCEPT !.conflict_graph = conflict_graph,
                            !.color_assignment =
                                assign_colors(activities, conflict_graph)]
    /\ activities' = CallerList(activities, ColoringBody(activities))
    /\ steps' = steps + 1
    /\ pc' = "returned"
    /\ UNCHANGED <<params, service, config, solver, invoked, bt, ga, output>>

WelshEnter ==
    /\ pc = "enter"
    /\ solver = "welsh_powell_coloring"
    /\ IF NotActivities(activities)
       THEN gc' = [gc EXCEPT !.count = 0] /\ pc' = "returned"
       ELSE pc' = "welsh" /\ UNCHANGED gc
    /\ UNCHANGED <<args, service, config, solver, invoked, steps, bt, ga, result, output>>

WelshRun ==
    /\ pc = "welsh"
    /\ LET body == WelshBody(activities)
       IN  gc' = [gc EXCEPT !.conflict_graph = body.conflict_graph,
                            !.colors = body.colors,
                            !.count = ColorCount(body.max_color)]
    /\ steps' = steps + 1
    /\ pc' = "returned"
    /\ UNCHANGED <<args, service, config, solver, invoked, bt, ga, result, output>>

\* --------------------------------------------------------------- DP actions
DpEnter ==
    /\ pc = "enter"
    /\ solver = "solve_weighted_activity_selection"
    /\ IF NotActivities(activities)
       THEN result' = <<>> /\ pc' = "returned"
       ELSE pc' = "dp" /\ UNCHANGED result
    /\ UNCHANGED <<args, service, gc, config, solver, invoked, steps, bt, ga, output>>

DpRun ==
    /\ pc = "dp"
    /\ result' = DpBody(activities)
    /\ activities' = CallerList(activities, SortByEnd(activities))
    /\ steps' = steps + 1
    /\ pc' = "returned"
    /\ UNCHANGED <<params, service, gc, config, solver, invoked, bt, ga, output>>

\* ----------------------------------------------------- backtracking actions
Top == bt.stack[Len(bt.stack)]

Pop(stack) == SubSeq(stack, 1, Len(stack) - 1)

\* The caller's frame waits at `at` while the callee runs on top of it
PushCall(stack, at, callee) ==
    Append([stack EXCEPT ![Len(stack)] = [@ EXCEPT !.at = at]], callee)

OptimalEnter ==
    /\ pc = "enter"
    /\ solver = "optimal_schedule"
    /\ IF NotActivities(activities)
       THEN result' = <<>> /\ pc' = "returned" /\ UNCHANGED <<bt, activities>>
       ELSE /\ bt' = [acts |-> SortByStart(activities),
                      stack |-> <<Frame(1, 0, InitialLastEnd, {})>>,
                      current_solution |-> <<>>,
                      best_solution |-> <<>>, best_weight |-> 0]
            /\ activities' = CallerList(activities, SortByStart(activities))
            /\ pc' = "backtrack"
            /\ UNCHANGED result
    /\ UNCHANGED <<params, service, gc, config, solver, invoked, steps, ga, output>>

\* backtrack() of optimal_schedule, from its first line to its first call
Backtrack ==
    /\ pc = "backtrack"
    /\ bt.stack # <<>>
    /\ Top.at = "enter"
    /\ steps' = steps + 1
    /\ LET f == Top
       IN  IF f.index = Len(bt.acts) + 1
           THEN IF Improves(f.current_weight, bt.best_weight)
                THEN bt' = [bt EXCEPT !.best_weight = f.current_weight,
                                      !.best_solution = bt.current_solution,
                                      !.stack = Pop(@)]
                ELSE bt' = [bt EXCEPT !.stack = Pop(@)]
           ELSE IF Prunes(f.current_weight, RemainingWeight(bt.acts, f.index),
                          bt.best_weight)
           THEN bt' = [bt EXCEPT !.stack = Pop(@)]
           ELSE bt' = [bt EXCEPT !.stack = PushCall(@, "skip",
                           Frame(f.index + 1, f.current_weight, f.last_end_time, {}))]
    /\ UNCHANGED <<args, service, gc, config, solver, invoked, pc, ga, result, output>>

\* Option 1 has returned: option 2, or return
AfterSkip ==
    /\ pc = "backtrack"
    /\ bt.stack # <<>>
    /\ Top.at = "skip"
    /\ LET f == Top
           current_activity == bt.acts[f.index]
       IN  IF CanTake(current_activity, f.last_end_time)
           THEN bt' = [bt EXCEPT !.current_solution = Append(@, current_activity),
                                 !.stack = PushCall(@, "take",
                                     Frame(f.index + 1,
                                           f.current_weight + current_activity.weight,
                                           current_activity.end, {}))]
           ELSE bt' = [bt EXCEPT !.stack = Pop(@)]
    /\ UNCHANGED <<args, service, gc, config, solver, invoked, pc, steps, ga, result, output>>

\* Option 2 has returned: current_solution.pop(), return
AfterTake ==
    /\ pc = "backtrack"
    /\ bt.stack # <<>>
    /\ Top.at = "take"
    /\ bt' = [bt EXCEPT !.current_solution = Pop(@), !.stack = Pop(@)]
    /\ UNCHANGED <<args, service, gc, config, solver, invoked, pc, steps, ga, result, output>>

\* return best_solution
OptimalReturn ==
    /\ pc = "backtrack"
    /\ bt.stack = <<>>
    /\ result' = bt.best_solution
    /\ pc' = "returned"
    /\ UNCHANGED <<args, service, gc, config, solver, invoked, steps, bt, ga, output>>

\* --------------------------------------------- constrained backtracking
\* schedule_with_constraints up to its first call of backtrack()
ConstrainedEnter ==
    /\ pc = "enter"
    /\ solver = "schedule_with_constraints"
    /\ LET valid_activities == ValidActivities(activities, forbidden_activities)
           mandatory_acts == MandatoryActs(valid_activities, mandatory_activities)
       IN  IF NotActivities(activities)
           THEN result' = <<>> /\ pc' = "returned" /\ UNCHANGED <<bt, activities>>
           ELSE IF ~is_feasible(mandatory_acts)
           THEN result' = <<>> /\ pc' = "returned" /\ UNCHANGED <<bt, activities>>
           ELSE /\ bt' = [acts |-> SortByStart(valid_activities),
                          stack |-> <<Frame(1, 0, InitialLastEnd, {})>>,
                          current_solution |-> <<>>,
                          best_solution |-> <<>>, best_weight |-> 0]
                /\ activities' = CallerList(activities, SortByStart(valid_activities))
                /\ pc' = "cbacktrack"
                /\ UNCHANGED result
    /\ UNCHANGED <<params, service, gc, config, solver, invoked, steps, ga, output>>

\* Option 2 of the constrained backtrack(), or its return
ConstrainedOption2(f) ==
    LET current_activity == bt.acts[f.index]
        is_mandatory == current_activity.id \in mandatory_activities
        new_mandatory == IF is_mandatory
                         THEN f.mandatory_included \cup {current_activity.id}
                         ELSE f.mandatory_included
    IN  IF CanTake(current_activity, f.last_end_time)
        THEN [bt EXCEPT !.current_solution = Append(@, current_activity),
                        !.stack = PushCall(@, "take",
                            Frame(f.index + 1,
                                  f.current_weight + current_activity.weight,
                                  current_activity.end, new_mandatory))]
        ELSE [bt EXCEPT !.stack = Pop(@)]

\* backtrack() of schedule_with_constraints, from its first line to its first call
CBacktrack ==
    /\ pc = "cbacktrack"
    /\ bt.stack # <<>>
    /\ Top.at = "enter"
    /\ steps' = steps + 1
    /\ LET f == Top
       IN  IF f.index = Len(bt.acts) + 1
           THEN IF /\ CoversMandatory(f.mandatory_included, mandatory_activities)
                   /\ Improves(f.current_weight, bt.best_weight)
                THEN bt' = [bt EXCEPT !.best_weight = f.current_weight,
                                      !.best_solution = bt.current_solution,
                                      !.stack = Pop(@)]
                ELSE bt' = [bt EXCEPT !.stack = Pop(@)]
           ELSE IF bt.acts[f.index].id \notin mandatory_activities
           THEN bt' = [bt EXCEPT !.stack = PushCall(@, "skip",
                           Frame(f.index + 1, f.current_weight, f.last_end_time,
                                 f.mandatory_included))]
           ELSE bt' = ConstrainedOption2(f)
    /\ UNCHANGED <<args, service, gc, config, solver, invoked, pc, ga, result, output>>

CAfterSkip ==
    /\ pc = "cbacktrack"
    /\ bt.stack # <<>>
    /\ Top.at = "skip"
    /\ bt' = ConstrainedOption2(Top)
    /\ UNCHANGED <<args, service, gc, config, solver, invoked, pc, steps, ga, result, output>>

CAfterTake ==
    /\ pc = "cbacktrack"
    /\ bt.stack # <<>>
    /\ Top.at = "take"
    /\ bt' = [bt EXCEPT !.current_solution = Pop(@), !.stack = Pop(@)]
    /\ UNCHANGED <<args, service, gc, config, solver, invoked, pc, steps, ga, result, output>>

ConstrainedReturn ==
    /\ pc = "cbacktrack"
    /\ bt.stack = <<>>
    /\ result' = bt.best_solution
    /\ pc' = "returned"
    /\ UNCHANGED <<args, service, gc, config, solver, invoked, steps, bt, ga, output>>

\* ---------------------------------------------------------- genetic actions
\* The populations and generations explored are capped (the default
\* configuration of the dispatcher exceeds what can be enumerated)
PopSize == Min(config.population_size, MaxPop)

Generations == Min(config.generations, MaxGen)

EvolveEnter ==
    /\ pc = "enter"
    /\ solver = "evolve_schedule"
    /\ IF NotActivities(activities)
       THEN result' = <<>> /\ pc' = "returned"
       ELSE pc' = "ga_init" /\ UNCHANGED result
    /\ UNCHANGED <<args, service, gc, config, solver, invoked, steps, bt, ga, output>>

\* population = [Individual(activities) for _ in range(population_size)]
InitPopulation ==
    /\ pc = "ga_init"
    /\ \E chromosomes \in [1..PopSize -> [1..Len(activities) -> BOOLEAN]] :
           ga' = [population |-> [i \in 1..PopSize |->
                                     Evaluate(activities, chromosomes[i])],
                  new_population |-> <<>>, generation |-> 0,
                  best_individual |-> <<>>, best_fitness |-> <<>>]
    /\ steps' = steps + 1
    /\ pc' = "ga_loop"
    /\ UNCHANGED <<args, service, gc, config, solver, invoked, bt, result, output>>

\* The top of one generation: best-ever tracking, sort, elite copies
Generation ==
    /\ pc = "ga_loop"
    /\ ga.generation < Generations
    /\ LET best == TrackBest(ga.population, 1, <<ga.best_individual, ga.best_fitness>>)
           sorted == SortByFitness(ga.population)
       IN  ga' = [ga EXCEPT !.best_individual = best[1],
                            !.best_fitness = best[2],
                            !.population = sorted,
                            !.new_population = EliteOf(sorted, config.elite_size)]
    /\ steps' = steps + 1
    /\ pc' = "ga_breed"
    /\ UNCHANGED <<args, service, gc, config, solver, invoked, bt, result, output>>

\* One pass of the while loop: two parents, crossover or copies, mutation.
\* random.randint(1, 0) raises ValueError when the chromosome has one gene.
Breed ==
    /\ pc = "ga_breed"
    /\ Len(ga.new_population) < PopSize
    /\ \E parent1 \in tournament_selection(ga.population),
          parent2 \in tournament_selection(ga.population),
          r1 \in RandomDraws, r2 \in RandomDraws, r3 \in RandomDraws :
          IF r1 < config.crossover_rate /\ CrossoverPoints(Len(activities)) = {}
          THEN pc' = "raised" /\ UNCHANGED ga
          ELSE \E children \in
                   (IF r1 < config.crossover_rate
                    THEN {crossover(activities, parent1, parent2, cp) :
                              cp \in CrossoverPoints(Len(activities))}
                    ELSE {<<parent1, parent2>>}) :
               \E child1 \in
                   (IF r2 < config.mutation_rate
                    THEN {mutate(activities, children[1], m) : m \in 1..Len(activities)}
                    ELSE {children[1]}),
                  child2 \in
                   (IF r3 < config.mutation_rate
                    THEN {mutate(activities, children[2], m) : m \in 1..Len(activities)}
                    ELSE {children[2]}) :
                   /\ ga' = [ga EXCEPT !.new_population = @ \o <<child1, child2>>]
                   /\ pc' = pc
    /\ UNCHANGED <<args, service, gc, config, solver, invoked, steps, bt, result, output>>

\* population = new_population[:population_size]; new_population is rebound
\* to [] at the top of the next generation and never read before
NextGeneration ==
    /\ pc = "ga_breed"
    /\ Len(ga.new_population) >= PopSize
    /\ ga' = [ga EXCEPT !.population = Trim(ga.new_population, PopSize),
                        !.new_population = <<>>,
                        !.generation = @ + 1]
    /\ pc' = "ga_loop"
    /\ UNCHANGED <<args, service, gc, config, solver, invoked, steps, bt, result, output>>

\* a return as soon as some feasible individual has been recorded
EvolveReturnConverged ==
    /\ pc = "ga_loop"
    /\ ga.generation >= Generations \/ ga.best_individual # <<>>
    /\ result' = FinalSchedule(activities, ga.best_individual)
    /\ activities' = CallerList(activities, GreedyOrder(activities))
    /\ pc' = "returned"
    /\ UNCHANGED <<params, service, gc, config, solver, invoked, steps, bt, ga, output>>

EvolveReturn ==
    /\ pc = "ga_loop"
    /\ ga.generation >= Generations
    /\ result' = FinalSchedule(activities, ga.best_individual)
    /\ activities' = CallerList(activities, GreedyOrder(activities))
    /\ pc' = "returned"
    /\ UNCHANGED <<params, service, gc, config, solver, invoked, steps, bt, ga, output>>

\* ------------------------------------------------------------ specification
Next ==
    \/ run_single_algorithm
    \/ DispatchReturn
    \/ ColoringEnter
    \/ ColoringRun
    \/ WelshEnter
    \/ WelshRun
    \/ DpEnter
    \/ DpRun
    \/ OptimalEnter
    \/ Backtrack
    \/ AfterSkip
    \/ AfterTake
    \/ OptimalReturn
    \/ ConstrainedEnter
    \/ CBacktrack
    \/ CAfterSkip
    \/ CAfterTake
    \/ ConstrainedReturn
    \/ EvolveEnter
    \/ InitPopulation
    \/ Generation
    \/ Breed
    \/ NextGeneration
    \/ EvolveReturn

Spec == Init /\ [][Next]_vars

\* ------------------------------------------------ evolve_schedule to its end
\* evolve_schedule called directly; the interpreter runs the call on, one
\* step after another, as long as it has a step to take
\* on the unweighted problem: every activity keeps the default weight
GaInit ==
    /\ Init
    /\ entry = "evolve_schedule"
    /\ \A i \in 1..Len(activities) : activities[i].weight = DefaultWeight

GaNext ==
    \/ EvolveEnter
    \/ InitPopulation
    \/ Generation
    \/ Breed
    \/ NextGeneration
    \/ EvolveReturn

GaSpec == GaInit /\ [][GaNext]_vars /\ WF_vars(GaNext)

\* ------------------------------------------------- the backtracking searches
\* find_all_valid_schedules, from the call to the return
FindAllEnter ==
    /\ pc = "enter"
    /\ solver = "find_all_valid_schedules"
    /\ IF NotActivities(activities)
       THEN result' = <<<<>>>> /\ pc' = "returned"
       ELSE pc' = "find_all" /\ UNCHANGED result
    /\ UNCHANGED <<args, service, gc, config, solver, invoked, steps, bt, ga, output>>

FindAllRun ==
    /\ pc = "find_all"
    /\ result' = find_all_valid_schedules(activities)
    /\ activities' = CallerList(activities, SortByStart(activities))
    /\ steps' = steps + 1
    /\ pc' = "returned"
    /\ UNCHANGED <<params, service, gc, config, solver, invoked, bt, ga, output>>

\* schedule_with_time_windows: the early return, or the filter and the call
\* of optimal_schedule on the activities that fit a window
TimeWindowsEnter ==
    /\ pc = "enter"
    /\ solver = "schedule_with_time_windows"
    /\ IF NotActivities(activities) \/ time_windows = <<>>
       THEN result' = <<>> /\ pc' = "returned"
       ELSE pc' = "windows" /\ UNCHANGED result
    /\ UNCHANGED <<args, service, gc, config, solver, invoked, steps, bt, ga, output>>

TimeWindowsRun ==
    /\ pc = "windows"
    /\ result' = schedule_with_time_windows(activities, time_windows)
    /\ invoked' = Append(invoked, "optimal_schedule")
    /\ steps' = steps + 1
    /\ pc' = "returned"
    /\ UNCHANGED <<args, service, gc, config, solver, bt, ga, output>>

SearchEntries ==
    {"optimal_schedule", "find_all_valid_schedules", "schedule_with_constraints",
     "schedule_with_time_windows"}

\* (window_start, window_end) pairs, well-formed or not
WindowLists == UNION {[1..n -> Times \X Times] : n \in 0..MaxWindows}

SearchInputs(e) ==
    IF e = "schedule_with_time_windows"
    THEN {a \in ActivityLists : /\ Len(a) <= MaxWindowN
                                /\ \A i \in 1..Len(a) : a[i].weight <= MaxLightWeight}
    ELSE InputsOf(e)

\* A caller calls one of the searches of BacktrackingScheduler directly
SearchInit ==
    /\ entry \in SearchEntries
    /\ activities \in SearchInputs(entry)
    /\ token = ""
    /\ mandatory_activities \in
           (IF entry = "schedule_with_constraints" THEN SUBSET Ids ELSE {{}})
    /\ forbidden_activities \in
           (IF entry = "schedule_with_constraints" THEN SUBSET Ids ELSE {{}})
    /\ time_windows \in
           (IF entry = "schedule_with_time_windows" THEN WindowLists ELSE {<<>>})
    /\ config = NoConfig
    /\ solver = entry
    /\ invoked = <<entry>>
    /\ pc = "enter"
    /\ steps = 0
    /\ bt = BtIdle
    /\ ga = GaIdle
    /\ result = <<>>
    /\ output = <<>>
    /\ gc = GcIdle
    /\ calls = [p \in Callers |-> CallIdle]
    /\ rng = 0
    /\ rng_users = {}
    /\ budget = [p \in Callers |-> 0]

SearchNext ==
    \/ OptimalEnter
    \/ Backtrack
    \/ AfterSkip
    \/ AfterTake
    \/ OptimalReturn
    \/ FindAllEnter
    \/ FindAllRun
    \/ ConstrainedEnter
    \/ CBacktrack
    \/ CAfterSkip
    \/ CAfterTake
    \/ ConstrainedReturn
    \/ TimeWindowsEnter
    \/ TimeWindowsRun

SearchSpec == SearchInit /\ [][SearchNext]_vars

\* ---------------------------------------------------- concurrent invocations
\* Two callers invoke solvers, each with its own input list; the steps of
\* their invocations interleave.  The locals of an invocation are the locals
\* and closure variables of its call; the random module's generator is the
\* one module-level object every invocation of the genetic solver draws from.
ServiceSolvers == {"coloring_schedule", "solve_weighted_activity_selection",
                   "optimal_schedule", "evolve_schedule"}

ServiceShapes == {t \in (0..MaxServiceTime) \X (0..MaxServiceTime) : t[1] < t[2]}

ServiceLists ==
    UNION {{[i \in 1..n |-> [id |-> i, start |-> t[i][1], end |-> t[i][2], weight |-> 1]] :
                t \in [1..n -> ServiceShapes]} : n \in 0..MaxServiceN}

\* GAConfig(1, 1, 0.0, 1.0, 0), rates in tenths
ServiceConfig ==
    [population_size |-> 1, generations |-> 1, crossover_rate |-> 0,
     mutation_rate |-> 10, elite_size |-> 0]

ServiceInit ==
    /\ activities = <<>>
    /\ entry = "service"
    /\ token = ""
    /\ mandatory_activities = {}
    /\ forbidden_activities = {}
    /\ time_windows = <<>>
    /\ config = ServiceConfig
    /\ solver = ""
    /\ invoked = <<>>
    /\ pc = "service"
    /\ steps = 0
    /\ bt = BtIdle
    /\ ga = GaIdle
    /\ result = <<>>
    /\ output = <<>>
    /\ gc = GcIdle
    /\ calls = [p \in Callers |-> CallIdle]
    /\ rng = 0
    /\ rng_users = {}
    /\ budget = [p \in Callers |-> IF p = 1 THEN MaxCalls ELSE 1]

\* Caller p calls a solver with a list of its own
Invoke(p) ==
    /\ pc = "service"
    /\ calls[p].pc \in {"idle", "returned"}
    /\ budget[p] > 0
    /\ \E s \in ServiceSolvers, a \in ServiceLists :
           calls' = [calls EXCEPT ![p] = [solver |-> s, activities |-> a, pc |-> "enter",
                                          local |-> <<>>, result |-> <<>>]]
    /\ budget' = [budget EXCEPT ![p] = @ - 1]
    /\ UNCHANGED <<single, rng, rng_users>>

\* if not activities: return []
ServiceEnter(p) ==
    /\ calls[p].pc = "enter"
    /\ calls' = [calls EXCEPT ![p] =
           IF NotActivities(@.activities)
           THEN [@ EXCEPT !.pc = "returned", !.result = <<>>]
           ELSE [@ EXCEPT !.pc = "body"]]
    /\ UNCHANGED <<single, rng, rng_users, budget>>

\* coloring_schedule: the conflict graph, the colour map, the placement
ServiceColoring(p) ==
    /\ calls[p].solver = "coloring_schedule"
    /\ calls[p].pc \in {"body", "colors", "serialize"}
    /\ LET c == calls[p]
       IN  calls' = [calls EXCEPT ![p] =
               CASE c.pc = "body" ->
                        [c EXCEPT !.pc = "colors",
                                  !.local = [conflict_graph |->
                                                 build_conflict_graph(c.activities)]]
                 [] c.pc = "colors" ->
                        [c EXCEPT !.pc = "serialize",
                                  !.local = [conflict_graph |-> c.local.conflict_graph,
                                             color_assignment |->
                                                 assign_colors(c.activities,
                                                               c.local.conflict_graph)]]
                 [] c.pc = "serialize" ->
                        [c EXCEPT !.pc = "returned", !.local = <<>>,
                                  !.result = ScheduleGroups(c.activities,
                                                 c.local.color_assignment)]]
    /\ UNCHANGED <<single, rng, rng_users, budget>>

\* solve_weighted_activity_selection on a list it first shuffles with the
\* shared generator: the order of equal end times follows the generator
ServiceDpShuffled(p) ==
    /\ calls[p].solver = "solve_weighted_activity_selection"
    /\ calls[p].pc \in {"body", "reconstruct"}
    /\ LET c == calls[p]
           sorted == SortByEnd(IF rng = 0 THEN c.activities ELSE Reverse(c.activities))
           selected == Reverse(DpReconstruct(c.local.activities,
                                             c.local.latest_non_conflicting,
                                             Len(c.local.activities)))
       IN  calls' = [calls EXCEPT ![p] =
               IF c.pc = "body"
               THEN [c EXCEPT !.pc = "reconstruct",
                              !.local = [activities |-> sorted,
                                         latest_non_conflicting |-> LatestTable(sorted)]]
               ELSE [c EXCEPT !.pc = "returned", !.local = <<>>, !.result = selected]]
    /\ UNCHANGED <<single, rng, rng_users, budget>>

\* solve_weighted_activity_selection: the sorted list and the table of
\* predecessors, then the memo and the reconstruction
ServiceDp(p) ==
    /\ calls[p].solver = "solve_weighted_activity_selection"
    /\ calls[p].pc \in {"body", "reconstruct"}
    /\ LET c == calls[p]
           sorted == SortByEnd(c.activities)
           selected == Reverse(DpReconstruct(c.local.activities,
                                             c.local.latest_non_conflicting,
                                             Len(c.local.activities)))
       IN  calls' = [calls EXCEPT ![p] =
               IF c.pc = "body"
               THEN [c EXCEPT !.pc = "reconstruct",
                              !.local = [activities |-> sorted,
                                         latest_non_conflicting |-> LatestTable(sorted)]]
               ELSE [c EXCEPT !.pc = "returned", !.local = <<>>, !.result = selected]]
    /\ UNCHANGED <<single, rng, rng_users, budget>>

\* optimal_schedule: the sorted list and the best pair, the search, the return
ServiceBacktracking(p) ==
    /\ calls[p].solver = "optimal_schedule"
    /\ calls[p].pc \in {"body", "search", "return"}
    /\ LET c == calls[p]
           best == backtrack(c.local.activities, 1, <<>>, 0, InitialLastEnd,
                             [best_solution |-> c.local.best_solution,
                              best_weight |-> c.local.best_weight])
       IN  calls' = [calls EXCEPT ![p] =
               CASE c.pc = "body" ->
                        [c EXCEPT !.pc = "search",
                                  !.local = [activities |-> SortByStart(c.activities),
                                             best_solution |-> <<>>,
                                             best_weight |-> 0]]
                 [] c.pc = "search" ->
                        [c EXCEPT !.pc = "return",
                                  !.local = [activities |-> c.local.activities,
                                             best_solution |-> best.best_solution,
                                             best_weight |-> best.best_weight]]
                 [] c.pc = "return" ->
                        [c EXCEPT !.pc = "returned", !.local = <<>>,
                                  !.result = c.local.best_solution]]
    /\ UNCHANGED <<single, rng, rng_users, budget>>

\* A drawing step of caller p: the generator's state moves on
Draws(p) ==
    /\ rng' = (rng + 1) % RngPeriod
    /\ rng_users' = rng_users \cup {p}

\* evolve_schedule: the initial population, drawn from the generator
ServiceInitPopulation(p) ==
    /\ calls[p].solver = "evolve_schedule"
    /\ calls[p].pc = "body"
    /\ LET c == calls[p]
       IN  \E chromosomes \in [1..config.population_size ->
                                  [1..Len(c.activities) -> BOOLEAN]] :
               calls' = [calls EXCEPT ![p] =
                   [c EXCEPT !.pc = "ga_loop",
                             !.local = [population |->
                                            [i \in 1..config.population_size |->
                                                Evaluate(c.activities, chromosomes[i])],
                                        new_population |-> <<>>, generation |-> 0,
                                        best_individual |-> <<>>,
                                        best_fitness |-> <<>>]]]
    /\ Draws(p)
    /\ UNCHANGED <<single, budget>>

\* evolve_schedule: the top of a generation, or the return after the last
ServiceGeneration(p) ==
    /\ calls[p].solver = "evolve_schedule"
    /\ calls[p].pc = "ga_loop"
    /\ LET c == calls[p]
           best == TrackBest(c.local.population, 1,
                             <<c.local.best_individual, c.local.best_fitness>>)
           sorted == SortByFitness(c.local.population)
       IN  calls' = [calls EXCEPT ![p] =
               IF c.local.generation < config.generations
               THEN [c EXCEPT !.pc = "ga_breed",
                              !.local = [c.local EXCEPT
                                  !.best_individual = best[1],
                                  !.best_fitness = best[2],
                                  !.population = sorted,
                                  !.new_population = EliteOf(sorted, config.elite_size)]]
               ELSE [c EXCEPT !.pc = "returned", !.local = <<>>,
                              !.result = FinalSchedule(c.activities,
                                                       c.local.best_individual)]]
    /\ UNCHANGED <<single, rng, rng_users, budget>>

\* evolve_schedule: one pass of the while loop, drawn from the generator
\* (_crossover is never called at crossover rate 0.0)
ServiceBreed(p) ==
    /\ calls[p].solver = "evolve_schedule"
    /\ calls[p].pc = "ga_breed"
    /\ Len(calls[p].local.new_population) < config.population_size
    /\ LET c == calls[p]
       IN  \E children \in BreedOutcomes(c.activities, config, c.local.population) :
               calls' = [calls EXCEPT ![p] =
                   [c EXCEPT !.local = [c.local EXCEPT
                       !.new_population = @ \o <<children[1], children[2]>>]]]
    /\ Draws(p)
    /\ UNCHANGED <<single, budget>>

\* evolve_schedule: population = new_population[:config.population_size]
ServiceNextGeneration(p) ==
    /\ calls[p].solver = "evolve_schedule"
    /\ calls[p].pc = "ga_breed"
    /\ Len(calls[p].local.new_population) >= config.population_size
    /\ LET c == calls[p]
       IN  calls' = [calls EXCEPT ![p] =
               [c EXCEPT !.pc = "ga_loop",
                         !.local = [c.local EXCEPT
                             !.population = Trim(c.local.new_population,
                                                 config.population_size),
                             !.new_population = <<>>,
                             !.generation = @ + 1]]]
    /\ UNCHANGED <<single, rng, rng_users, budget>>

ServiceNext ==
    \E p \in Callers :
        \/ Invoke(p)
        \/ ServiceEnter(p)
        \/ ServiceColoring(p)
        \/ ServiceDp(p)
        \/ ServiceBacktracking(p)
        \/ ServiceInitPopulation(p)
        \/ ServiceGeneration(p)
        \/ ServiceBreed(p)
        \/ ServiceNextGeneration(p)

ServiceSpec == ServiceInit /\ [][ServiceNext]_vars

\* ------------------------------------------- welsh_powell_coloring on its own
\* welsh_powell_coloring called directly, on lists long enough for the order
\* of the degrees to matter
WelshShapes == {<<s, s + WelshDuration>> : s \in 0..MaxWelshStart}

\* The list of n activities with ids 1..n and the times t[1], ..., t[n]
WelshList(n, t) ==
    [i \in 1..n |-> [id |-> i, start |-> t[i][1], end |-> t[i][2], weight |-> 1]]

WelshInit ==
    /\ entry = "welsh_powell_coloring"
    /\ \E n \in 0..MaxWelshN :
           \E t \in [1..n -> WelshShapes] : activities = WelshList(n, t)
    /\ token = ""
    /\ mandatory_activities = {}
    /\ forbidden_activities = {}
    /\ time_windows = <<>>
    /\ config = NoConfig
    /\ solver = entry
    /\ invoked = <<entry>>
    /\ pc = "enter"
    /\ steps = 0
    /\ bt = BtIdle
    /\ ga = GaIdle
    /\ result = <<>>
    /\ output = <<>>
    /\ gc = GcIdle
    /\ calls = [p \in Callers |-> CallIdle]
    /\ rng = 0
    /\ rng_users = {}
    /\ budget = [p \in Callers |-> 0]

WelshNext == WelshEnter \/ WelshRun

WelshSpec == WelshInit /\ [][WelshNext]_vars

\* ------------------------------------------------------- reference notions
\* Two intervals share a time unit [t, t + 1)
SharePoint(a, b) ==
    \E t \in Min(a.start, b.start)..Max(a.end, b.end) :
        /\ a.start <= t /\ t < a.end
        /\ b.start <= t /\ t < b.end

\* No two members of a list overlap (the overlap test of the specification)
PairwiseFree(acts) ==
    \A i, j \in 1..Len(acts) :
        i # j => (acts[i].end <= acts[j].start \/ acts[j].end <= acts[i].start)

IdsOf(acts) == {acts[i].id : i \in 1..Len(acts)}

\* The conflict-free subsets of a list, as sets of positions
FreeSubsets(acts) ==
    {S \in SUBSET (1..Len(acts)) :
        \A i, j \in S : i # j =>
            (acts[i].end <= acts[j].start \/ acts[j].end <= acts[i].start)}

WeightOf(acts, S) == SumSeq([k \in 1..Len(acts) |-> IF k \in S THEN acts[k].weight ELSE 0])

\* The maximum total weight of a conflict-free subset (brute force)
Optimum(acts) == SetMax({WeightOf(acts, S) : S \in FreeSubsets(acts)})

\* The conflict-free subsets that hold every mandatory and no forbidden id
Admissible(acts, mandatory, forbidden) ==
    {S \in FreeSubsets(acts) :
        /\ mandatory \subseteq {acts[i].id : i \in S}
        /\ {acts[i].id : i \in S} \cap forbidden = {}}

Returned(s) == solver = s /\ pc \in {"returned", "done"}

\* ------------------------------------------------------------------ claims
\* C1: the list returned by coloring_schedule (remapped times),
\* solve_weighted_activity_selection, optimal_schedule and evolve_schedule
\* (best individual or greedy fallback) is pairwise conflict-free.
C1_ConflictFree ==
    /\ \A s \in {"coloring_schedule", "solve_weighted_activity_selection",
                 "optimal_schedule", "evolve_schedule"} :
           Returned(s) => PairwiseFree(result)
    /\ pc = "enter" => PairwiseFree(greedy_fallback(activities))

C1_Witness ==
    /\ Returned("optimal_schedule")
    /\ Len(result) = 2
    /\ Len(activities) = 3

\* C2: the DP solver is exact: the weight of its result is the maximum over
\* all conflict-free subsets, and every returned activity is an input
\* activity, unchanged.
C2_DpExact ==
    Returned("solve_weighted_activity_selection") =>
        /\ TotalWeight(result) = Optimum(activities)
        /\ \A k \in 1..Len(result) : result[k] \in Range(activities)

C2_Witness ==
    /\ Returned("solve_weighted_activity_selection")
    /\ Len(result) = 2
    /\ Len(activities) = 3
    /\ TotalWeight(result) < TotalWeight(activities)

\* C3: optimal_schedule and solve_weighted_activity_selection return the
\* same total weight on every well-formed list (any integer start).
C3_Agreement ==
    Returned("optimal_schedule") =>
        TotalWeight(result) = TotalWeight(solve_weighted_activity_selection(activities))

\* C4: on a non-empty list the weight W of evolve_schedule's result
\* satisfies greedy <= W <= optimum.
C4_GaBounds ==
    (Returned("evolve_schedule") /\ activities # <<>>) =>
        /\ TotalWeight(greedy_fallback(activities)) <= TotalWeight(result)
        /\ TotalWeight(result) <= Optimum(activities)

\* C5: on the empty list every solver returns the empty list, raises
\* nothing and runs no search, colouring or generation step.
C5_EmptyInput ==
    (activities = <<>> /\ solver \in Solvers) =>
        /\ pc \in {"enter", "returned", "done"}
        /\ steps = 0
        /\ result = <<>>
        /\ bt = BtIdle
        /\ ga = GaIdle

C5_Witness ==
    /\ activities = <<>>
    /\ Returned("schedule_with_constraints")
    /\ result = <<>>

\* C6: has_conflict, has_time_conflict and overlaps_with are the half-open
\* overlap test: true iff NOT(a.end <= b.start OR b.end <= a.start), that
\* is iff the two intervals share a time unit; symmetric; false for
\* touching activities.
C6_HalfOpen ==
    pc \in {"call", "enter"} => \A i, j \in 1..Len(activities) :
        LET a == activities[i]
            b == activities[j]
        IN  /\ has_conflict(a, b) <=> (a.end > b.start /\ b.end > a.start)
            /\ has_conflict(a, b) <=> SharePoint(a, b)
            /\ has_time_conflict(a, b) <=> has_conflict(a, b)
            /\ overlaps_with(a, b) <=> has_conflict(a, b)
            /\ has_conflict(a, b) <=> has_conflict(b, a)
            /\ a.end = b.start => ~has_conflict(a, b)

C6_Witness ==
    \E i, j, k \in 1..Len(activities) :
        /\ activities[i].end = activities[j].start
        /\ ~has_conflict(activities[i], activities[j])
        /\ has_conflict(activities[i], activities[k])

\* Two non-forbidden mandatory input activities overlap
MandatoryClash ==
    \E i, j \in 1..Len(activities) :
        /\ i # j
        /\ activities[i].id \in mandatory_activities \ forbidden_activities
        /\ activities[j].id \in mandatory_activities \ forbidden_activities
        /\ ~(activities[i].end <= activities[j].start
             \/ activities[j].end <= activities[i].start)

\* C7: when two non-forbidden mandatory activities overlap,
\* schedule_with_constraints returns the empty list and never enters the
\* recursive search.
C7_InfeasibleMandatory ==
    (solver = "schedule_with_constraints" /\ MandatoryClash) =>
        /\ pc \in {"enter", "returned"}
        /\ steps = 0
        /\ bt.stack = <<>>
        /\ result = <<>>

C7_Witness ==
    /\ Returned("schedule_with_constraints")
    /\ MandatoryClash
    /\ Cardinality(mandatory_activities) = 3
    /\ result = <<>>

\* C8: a non-empty mandatory set whose ids all occur in the input, are not
\* forbidden and do not overlap pairwise makes schedule_with_constraints
\* return a non-empty list holding every mandatory activity.
C8_FeasibleMandatory ==
    (/\ Returned("schedule_with_constraints")
     /\ mandatory_activities # {}
     /\ mandatory_activities \subseteq IdsOf(activities)
     /\ mandatory_activities \cap forbidden_activities = {}
     /\ ~MandatoryClash) =>
        /\ result # <<>>
        /\ mandatory_activities \subseteq IdsOf(result)

\* C9: with non-negative start times, a non-empty result of
\* schedule_with_constraints is conflict-free, holds every mandatory id and
\* no forbidden id, and has the maximum weight of all such subsets of the
\* input; when no such subset exists the result is empty.
C9_ConstrainedOptimum ==
    (/\ Returned("schedule_with_constraints")
     /\ \A i \in 1..Len(activities) : activities[i].start >= 0) =>
        LET adm == Admissible(activities, mandatory_activities, forbidden_activities)
        IN  /\ result # <<>> =>
                /\ PairwiseFree(result)
                /\ mandatory_activities \subseteq IdsOf(result)
                /\ IdsOf(result) \cap forbidden_activities = {}
                /\ \A k \in 1..Len(result) : result[k] \in Range(activities)
                /\ adm # {}
                /\ TotalWeight(result) = SetMax({WeightOf(activities, S) : S \in adm})
            /\ adm = {} => result = <<>>

C9_Witness ==
    /\ Returned("schedule_with_constraints")
    /\ \A i \in 1..Len(activities) : activities[i].start >= 0
    /\ Len(activities) = 3
    /\ Cardinality(mandatory_activities) = 1
    /\ Cardinality(forbidden_activities) = 1
    /\ Len(result) = 2
    /\ TotalWeight(result) = 1

\* The solver each token of the specification names
TokenSolver ==
    [t \in {"graph-coloring", "dynamic-prog", "backtracking", "genetic"} |->
        CASE t = "graph-coloring" -> "coloring_schedule"
          [] t = "dynamic-prog" -> "solve_weighted_activity_selection"
          [] t = "backtracking" -> "optimal_schedule"
          [] t = "genetic" -> "evolve_schedule"]

\* C10: run_single_algorithm invokes exactly the solver its token names
\* (genetic with GAConfig(50, 100, 0.8, 0.1, 5)) and returns its result
\* unchanged; any other token invokes no solver and returns the empty list
\* without raising.
C10_Dispatcher ==
    entry = "run_single_algorithm" =>
        IF token \in DOMAIN TokenSolver
        THEN /\ pc # "call" => invoked = <<TokenSolver[token]>>
             /\ (pc # "call" /\ token = "genetic") =>
                    config = [population_size |-> 50, generations |-> 100,
                              crossover_rate |-> 8, mutation_rate |-> 1,
                              elite_size |-> 5]
             /\ pc = "done" => output = result
        ELSE /\ invoked = <<>>
             /\ steps = 0
             /\ pc \in {"call", "done"}
             /\ output = <<>>

C10_Witness ==
    /\ entry = "run_single_algorithm"
    /\ token = "backtracking"
    /\ pc = "done"
    /\ Len(output) = 2

\* k >= 1 activities that all overlap pairwise
Clique(acts) ==
    /\ Len(acts) >= 1
    /\ \A i, j \in 1..Len(acts) :
           i # j => ~(acts[i].end <= acts[j].start \/ acts[j].end <= acts[i].start)

\* C11: on k >= 1 pairwise overlapping activities, in any input order,
\* assign_colors uses exactly the colours 0..k-1, one per activity, and
\* welsh_powell_coloring returns k.
C11_CliqueColouring ==
    Clique(activities) =>
        /\ Returned("coloring_schedule") =>
               /\ DOMAIN gc.color_assignment = IdsOf(activities)
               /\ {gc.color_assignment[id] : id \in IdsOf(activities)}
                      = 0..(Len(activities) - 1)
        /\ Returned("welsh_powell_coloring") => gc.count = Len(activities)

C11_Witness ==
    /\ Clique(activities)
    /\ Len(activities) = 3
    /\ Returned("welsh_powell_coloring")
    /\ gc.count = 3
    /\ \E i \in 1..2 : activities[i].start > activities[i + 1].start

\* C12: after assign_colors every activity has a colour >= 0 and two
\* overlapping activities have different colours, so every colour group of
\* coloring_schedule is pairwise non-overlapping in original times.
C12_ProperColouring ==
    (Returned("coloring_schedule") /\ activities # <<>>) =>
        /\ DOMAIN gc.color_assignment = IdsOf(activities)
        /\ \A id \in IdsOf(activities) : gc.color_assignment[id] >= 0
        /\ \A i, j \in 1..Len(activities) :
               (i # j /\ has_time_conflict(activities[i], activities[j])) =>
                   gc.color_assignment[activities[i].id]
                       # gc.color_assignment[activities[j].id]
        /\ \A c \in {gc.color_assignment[id] : id \in IdsOf(activities)} :
               PairwiseFree(ColorGroup(activities, gc.color_assignment, c))

\* The shape of the worked example: 1 and 2 overlap, 2 and 3 overlap, 1 and 3 touch
C12_Witness ==
    /\ Returned("coloring_schedule")
    /\ Len(activities) = 3
    /\ has_time_conflict(activities[1], activities[2])
    /\ has_time_conflict(activities[2], activities[3])
    /\ activities[1].end = activities[3].start
    /\ gc.color_assignment[1] # gc.color_assignment[2]
    /\ gc.color_assignment[2] # gc.color_assignment[3]
    /\ gc.color_assignment[1] = gc.color_assignment[3]

\* Caller p's invocation of solver s has returned
ServiceReturned(p, s) == calls[p].solver = s /\ calls[p].pc = "returned"

C14_GaTotality ==
    (solver = "evolve_schedule" /\ activities # <<>>) =>
        /\ pc # "raised"
        /\ pc = "ga_breed" =>
               /\ tournament_selection(ga.population) # {}
               /\ 1..Len(activities) # {}

AloneResults(s, acts) ==
    CASE s = "coloring_schedule" -> {coloring_schedule(acts)}
      [] s = "solve_weighted_activity_selection" ->
             {solve_weighted_activity_selection(acts)}
      [] s = "optimal_schedule" ->
             IF acts = <<>> THEN {<<>>}
             ELSE {backtrack(SortByStart(acts), 1, <<>>, 0, InitialLastEnd,
                             [best_solution |-> <<>>, best_weight |-> 0]).best_solution}
      [] s = "evolve_schedule" ->
             IF acts = <<>> THEN {<<>>}
             ELSE {greedy_fallback(acts)} \cup
                  {get_selected_activities(acts, ch) :
                       ch \in {x \in [1..Len(acts) -> BOOLEAN] :
                                   Evaluate(acts, x).is_valid}}

\* Invocations p and q are both under way and both have read and advanced
\* the one generator
ShareGenerator(p, q) ==
    /\ p # q
    /\ {p, q} \subseteq rng_users
    /\ calls[p].pc \in {"ga_loop", "ga_breed"}
    /\ calls[q].pc \in {"ga_loop", "ga_breed"}

\* C16: two interleaved invocations, each with its own list, never use a
\* variable the other writes, the pseudorandom source of the genetic solver
\* included, and each returns a result it could return when run alone.
C16_Independence ==
    /\ \A p, q \in Callers : ~ShareGenerator(p, q)
    /\ \A p \in Callers :
           calls[p].pc = "returned" =>
               calls[p].result \in AloneResults(calls[p].solver, calls[p].activities)

\* The activities can be split into k groups without an overlap inside a group
SplitsInto(acts, k) ==
    \E f \in [1..Len(acts) -> 1..k] :
        \A i, j \in 1..Len(acts) :
            (i < j /\ has_time_conflict(acts[i], acts[j])) => f[i] # f[j]

\* C17: the count returned by welsh_powell_coloring is the chromatic number
\* of the conflict graph: its own colouring is proper with that many colours,
\* and the activities cannot be split into fewer pairwise non-overlapping
\* groups; the empty list needs none.
C17_WelshMinimum ==
    Returned("welsh_powell_coloring") =>
        IF activities = <<>> THEN gc.count = 0
        ELSE /\ \A i \in 1..Len(activities) :
                    gc.colors[activities[i].id] \in 0..(gc.count - 1)
             /\ \A i, j \in 1..Len(activities) :
                    (i < j /\ has_time_conflict(activities[i], activities[j])) =>
                        gc.colors[activities[i].id] # gc.colors[activities[j].id]
             /\ ~SplitsInto(activities, gc.count - 1)

\* A call of coloring_schedule or welsh_powell_coloring has built its graph
GraphBuilt ==
    /\ solver \in {"coloring_schedule", "welsh_powell_coloring"}
    /\ pc \in {"returned", "done"}
    /\ activities # <<>>

\* C18: for activities with unique ids the map built by build_conflict_graph
\* has exactly the input ids as keys; b is listed under a iff a # b and the
\* two activities overlap (not (a.end <= b.start or b.end <= a.start)); the
\* relation is symmetric, no id is its own neighbour and no neighbour is
\* listed twice.
C18_ConflictGraph ==
    GraphBuilt =>
        LET graph == gc.conflict_graph
            n == Len(activities)
            Listed(a, b) == \E k \in 1..Len(graph[a]) : graph[a][k] = b
        IN  /\ DOMAIN graph = IdsOf(activities)
            /\ \A i, j \in 1..n :
                   Listed(activities[i].id, activities[j].id) <=>
                       /\ i # j
                       /\ ~(\/ activities[i].end <= activities[j].start
                            \/ activities[j].end <= activities[i].start)
            /\ \A a, b \in DOMAIN graph : Listed(a, b) <=> Listed(b, a)
            /\ \A a \in DOMAIN graph : ~Listed(a, a)
            /\ \A a \in DOMAIN graph :
                   \A k, l \in 1..Len(graph[a]) : k # l => graph[a][k] # graph[a][l]

\* a graph with an edge and a pair without one: 1 and 2 overlap, 3 touches 2
C18_Witness ==
    /\ GraphBuilt
    /\ Len(activities) = 3
    /\ gc.conflict_graph[1] = <<2>>
    /\ gc.conflict_graph[2] = <<1>>
    /\ gc.conflict_graph[3] = <<>>
    /\ activities[2].end = activities[3].start

\* C19: the output of coloring_schedule holds every input activity exactly
\* once, with its id, weight and duration; it is ordered by increasing colour
\* and, within a colour, by non-decreasing original start; the first output
\* activity starts at 0 and each later one at the previous end + 1; the
\* colours are met in increasing order of their first assignment, for every
\* input order.
C19_Serialization ==
    (Returned("coloring_schedule") /\ activities # <<>>) =>
        LET n == Len(activities)
            Input(k) == activities[CHOOSE i \in 1..n : activities[i].id = result[k].id]
            color(k) == gc.color_assignment[result[k].id]
            first == ColorOrder(activities, gc.color_assignment, 1)
        IN  /\ Len(result) = n
            /\ \A i \in 1..n :
                   Cardinality({k \in 1..Len(result) : result[k].id = activities[i].id}) = 1
            /\ \A k \in 1..Len(result) :
                   /\ result[k].weight = Input(k).weight
                   /\ result[k].end - result[k].start = Input(k).end - Input(k).start
            /\ \A k, l \in 1..Len(result) :
                   k < l => /\ color(k) <= color(l)
                            /\ color(k) = color(l) => Input(k).start <= Input(l).start
            /\ result[1].start = 0
            /\ \A k \in 2..Len(result) : result[k].start = result[k - 1].end + 1
            /\ \A k, l \in 1..Len(first) : k < l => first[k] < first[l]

\* two colours, and a colour group that the sort by start reorders: the
\* output runs 3, 1, 2
C19_Witness ==
    /\ Returned("coloring_schedule")
    /\ Len(activities) = 3
    /\ gc.color_assignment = <<0, 1, 0>>
    /\ activities[3].start < activities[1].start
    /\ [k \in 1..3 |-> result[k].id] = <<3, 1, 2>>
    /\ result[3].start > 0

\* best(k): the largest total weight of a conflict-free choice among the
\* first k activities of the end-sorted list
BestUpTo(sorted, k) == Optimum(SubSeq(sorted, 1, k))

\* p(i): the last position before i whose activity ends by the start of i
PredOf(sorted, i) ==
    LET S == {j \in 1..(i - 1) : sorted[j].end <= sorted[i].start}
    IN  IF S = {} THEN 0 ELSE SetMax(S)

\* The positions the walk from i downward includes
RECURSIVE WalkIncluded(_, _)
WalkIncluded(sorted, i) ==
    IF i < 1 THEN {}
    ELSE IF sorted[i].weight + BestUpTo(sorted, PredOf(sorted, i)) >= BestUpTo(sorted, i - 1)
         THEN {i} \cup WalkIncluded(sorted, PredOf(sorted, i))
         ELSE WalkIncluded(sorted, i - 1)

\* C20: the reconstruction walks the end-sorted list from the last activity
\* down, includes activity i exactly when weight(i) + best(p(i)) >= best(i-1)
\* (a tie includes) and goes on at p(i), otherwise at i-1; the weight of the
\* reconstructed list is best of the whole list, and the list is returned in
\* chronological order: non-decreasing ends, each start at or after the
\* previous end.
C20_DpReconstruction ==
    (Returned("solve_weighted_activity_selection") /\ activities # <<>>) =>
        LET sorted == SortByEnd(activities)
            included == WalkIncluded(sorted, Len(sorted))
        IN  /\ result = SelectSeq(sorted,
                   LAMBDA a : \E i \in included : sorted[i] = a)
            /\ Len(result) = Cardinality(included)
            /\ TotalWeight(result) = BestUpTo(sorted, Len(sorted))
            /\ \A k \in 2..Len(result) :
                   /\ result[k - 1].end <= result[k].end
                   /\ result[k].start >= result[k - 1].end

\* a tie: two overlapping activities of the same weight, the one that ends
\* later is taken, and an earlier activity is reached through p
C20_Witness ==
    /\ Returned("solve_weighted_activity_selection")
    /\ Len(activities) = 3
    /\ LET sorted == SortByEnd(activities)
       IN  /\ overlaps_with(sorted[2], sorted[3])
           /\ sorted[2].weight = sorted[3].weight
           /\ sorted[3].weight > 0
           /\ PredOf(sorted, 3) = 1
           /\ sorted[1].weight > 0
           /\ result = <<sorted[1], sorted[3]>>

\* The depth-first search of optimal_schedule with the pruning test removed
RECURSIVE exhaustive(_, _, _, _, _, _)
exhaustive(acts, index, current_solution, current_weight, last_end_time, best) ==
    IF index = Len(acts) + 1
    THEN IF current_weight > best.best_weight
         THEN [best_solution |-> current_solution, best_weight |-> current_weight]
         ELSE best
    ELSE LET skipped == exhaustive(acts, index + 1, current_solution, current_weight,
                                   last_end_time, best)
         IN  IF acts[index].start >= last_end_time
             THEN exhaustive(acts, index + 1, Append(current_solution, acts[index]),
                             current_weight + acts[index].weight, acts[index].end,
                             skipped)
             ELSE skipped

\* The call of backtrack() on top of the stack is at its first line and its
\* pruning test succeeds
AtPrune ==
    /\ solver = "optimal_schedule"
    /\ pc = "backtrack"
    /\ bt.stack # <<>>
    /\ Top.at = "enter"
    /\ Top.index <= Len(bt.acts)
    /\ Top.current_weight + TotalWeight(SubSeq(bt.acts, Top.index, Len(bt.acts)))
           <= bt.best_weight

\* C21: optimal_schedule returns the solution of the same depth-first search
\* without the pruning test, and a subtree that is pruned holds no complete
\* assignment that would have replaced the best solution.
C21_PruningAdmissible ==
    /\ (Returned("optimal_schedule") /\ activities # <<>>) =>
           result = exhaustive(SortByStart(activities), 1, <<>>, 0, 0,
                               [best_solution |-> <<>>, best_weight |-> 0]).best_solution
    /\ AtPrune =>
           LET best == [best_solution |-> bt.best_solution, best_weight |-> bt.best_weight]
           IN  exhaustive(bt.acts, Top.index, bt.current_solution, Top.current_weight,
                          Top.last_end_time, best) = best

\* a subtree with an activity that could still be taken is cut off
C21_Witness ==
    /\ AtPrune
    /\ bt.best_weight > 0
    /\ bt.acts[Top.index].start >= Top.last_end_time
    /\ bt.acts[Top.index].weight > 0

\* The complete assignments of the depth-first search in the order it meets
\* them: option 1 (skip) before option 2 (take)
RECURSIVE Leaves(_, _, _, _, _)
Leaves(acts, index, current_solution, current_weight, last_end_time) ==
    IF index = Len(acts) + 1
    THEN <<[solution |-> current_solution, weight |-> current_weight]>>
    ELSE Leaves(acts, index + 1, current_solution, current_weight, last_end_time)
         \o (IF acts[index].start >= last_end_time
             THEN Leaves(acts, index + 1, Append(current_solution, acts[index]),
                         current_weight + acts[index].weight, acts[index].end)
             ELSE <<>>)

\* The first assignment of maximum weight, or the empty list when that weight is 0
FirstMaximum(leaves) ==
    LET m == SetMax({leaves[k].weight : k \in 1..Len(leaves)})
        first == CHOOSE k \in 1..Len(leaves) :
                     /\ leaves[k].weight = m
                     /\ \A l \in 1..(k - 1) : leaves[l].weight # m
    IN  IF m = 0 THEN <<>> ELSE leaves[first].solution

\* One step of optimal_schedule keeps the update rule
BestUpdateStep ==
    solver = "optimal_schedule" =>
        /\ bt'.best_weight >= bt.best_weight
        /\ (pc = "enter" /\ pc' = "backtrack") =>
               bt'.best_weight = 0 /\ bt'.best_solution = <<>>
        /\ (/\ pc = "backtrack"
            /\ \/ bt'.best_solution # bt.best_solution
               \/ bt'.best_weight # bt.best_weight) =>
               /\ Top.at = "enter"
               /\ Top.index = Len(bt.acts) + 1
               /\ Top.current_weight > bt.best_weight
               /\ bt'.best_weight = Top.current_weight
               /\ bt'.best_solution = bt.current_solution
        /\ (pc = "backtrack" /\ pc' = "returned") =>
               result' = FirstMaximum(Leaves(bt.acts, 1, <<>>, 0, 0))

\* C22: during optimal_schedule best_weight starts at 0 and never decreases;
\* best_solution is replaced only at a complete assignment (index = n) whose
\* weight is strictly greater than best_weight, never at one of equal weight;
\* the result is the first maximum-weight assignment in depth-first order
\* (skip before take), and is empty when that maximum is 0.
C22_BestUpdate == [][BestUpdateStep]_vars

\* a complete assignment that ties with the best found so far, and another
\* solution, is met and passed over
C22_Witness ==
    /\ solver = "optimal_schedule"
    /\ pc = "backtrack"
    /\ bt.stack # <<>>
    /\ Top.at = "enter"
    /\ Top.index = Len(bt.acts) + 1
    /\ Top.current_weight = bt.best_weight
    /\ bt.best_weight > 0
    /\ bt.current_solution # bt.best_solution

\* C23: on well-formed activities the compatibility tests of the solvers
\* agree with the shared conflict predicate: for every selection of the input,
\* _is_conflict_free and _is_feasible (sort by start, compare neighbours) are
\* true iff no two selected activities overlap, iff _count_conflicts is 0; so
\* is the cached flag of every individual of a population.
C23_TestsAgree ==
    /\ pc \in {"call", "enter"} =>
           \A ch \in [1..Len(activities) -> BOOLEAN] :
               LET selected == get_selected_activities(activities, ch)
                   free == \A i, j \in 1..Len(selected) :
                               i # j => ~overlaps_with(selected[i], selected[j])
               IN  /\ is_conflict_free(selected) <=> free
                   /\ is_feasible(selected) <=> free
                   /\ (count_conflicts(selected) = 0) <=> free
    /\ solver = "evolve_schedule" =>
           \A k \in 1..Len(ga.population) :
               LET selected == get_selected_activities(activities,
                                                       ga.population[k].chromosome)
               IN  ga.population[k].is_valid <=>
                       \A i, j \in 1..Len(selected) :
                           i # j => ~overlaps_with(selected[i], selected[j])

\* _is_feasible has turned down three mandatory activities given out of start
\* order, the first touching the second and overlapping the third: the whole
\* selection fails the tests, the touching pair passes
C23_Witness ==
    /\ Returned("schedule_with_constraints")
    /\ steps = 0
    /\ result = <<>>
    /\ mandatory_activities = {1, 2, 3}
    /\ forbidden_activities = {}
    /\ Len(activities) = 3
    /\ activities[2].end = activities[1].start
    /\ overlaps_with(activities[1], activities[3])
    /\ ~overlaps_with(activities[2], activities[3])
    /\ ~is_conflict_free(activities)
    /\ ~is_feasible(activities)
    /\ is_conflict_free(SubSeq(activities, 1, 2))
    /\ count_conflicts(activities) = 1

\* The cached values of an individual are those of its chromosome
CacheHolds(individual) ==
    LET selected == get_selected_activities(activities, individual.chromosome)
        pairs == {p \in (1..Len(selected)) \X (1..Len(selected)) :
                      p[1] < p[2] /\ overlaps_with(selected[p[1]], selected[p[2]])}
    IN  /\ individual.is_valid <=> PairwiseFree(selected)
        /\ individual.fitness = IF individual.is_valid THEN TotalWeight(selected)
                                ELSE TotalWeight(selected) - 10 * Cardinality(pairs)

\* C24: every individual of every population of every generation (random,
\* elite copy, crossover child, copy of a parent, mutated child) has is_valid
\* = (its selection is pairwise conflict-free) and fitness = the selected
\* weight when valid, the selected weight - 10 x (overlapping pairs) otherwise;
\* a mutation flips exactly one bit and re-derives the cached values.
C24_FitnessCache ==
    solver = "evolve_schedule" =>
        /\ \A k \in 1..Len(ga.population) : CacheHolds(ga.population[k])
        /\ \A k \in 1..Len(ga.new_population) : CacheHolds(ga.new_population[k])
        /\ \A k \in 1..Len(ga.best_individual) : CacheHolds(ga.best_individual[k])
        /\ \A k \in 1..Len(ga.population), m \in 1..Len(activities) :
               LET mutated == mutate(activities, ga.population[k], m)
               IN  /\ CacheHolds(mutated)
                   /\ \A g \in 1..Len(activities) :
                          (mutated.chromosome[g] # ga.population[k].chromosome[g])
                              <=> g = m

\* after a generation with mutation: a population with an individual that
\* carries the penalty and one that is valid with weight
C24_Witness ==
    /\ solver = "evolve_schedule"
    /\ pc = "ga_loop"
    /\ ga.generation >= 1
    /\ config.mutation_rate = 10
    /\ \E k \in 1..Len(ga.population) :
           ~ga.population[k].is_valid /\ ga.population[k].fitness < 0
    /\ \E k \in 1..Len(ga.population) :
           ga.population[k].is_valid /\ ga.population[k].fitness > 0

\* C25: at the start of every generation and after the last one the
\* population holds exactly config.population_size individuals, for every
\* elite_size in 0..population_size, odd remainders included: children come
\* in pairs and the surplus is cut off.
C25_PopulationSize ==
    (solver = "evolve_schedule" /\ config.elite_size <= config.population_size) =>
        /\ pc = "ga_loop" =>
               /\ Len(ga.population) = PopSize
               /\ entry = "evolve_schedule" =>
                      Len(ga.population) = config.population_size
        /\ pc = "ga_breed" =>
               /\ Len(ga.population) = PopSize
               /\ Len(ga.new_population) <= PopSize + 1
        /\ (pc = "returned" /\ activities # <<>>) => Len(ga.population) = PopSize

\* after the last generation of a run with an odd remainder: two places,
\* one elite copy, a pair of children of which one was cut off
C25_Witness ==
    /\ Returned("evolve_schedule")
    /\ config.population_size = 2
    /\ config.elite_size = 1
    /\ ga.generation = config.generations
    /\ ga.generation = 2
    /\ Len(ga.population) = 2

\* The recorded best is feasible, its fitness never decreases, and after the
\* tracking at the top of a generation it is at least the fitness of every
\* feasible member of the population
TrackingStep ==
    solver = "evolve_schedule" =>
        /\ \A k \in 1..Len(ga'.best_individual) : ga'.best_individual[k].is_valid
        /\ ga.best_fitness # <<>> =>
               ga'.best_fitness # <<>> /\ ga'.best_fitness[1] >= ga.best_fitness[1]
        /\ (pc = "ga_loop" /\ pc' = "ga_breed") =>
               \A k \in 1..Len(ga.population) :
                   ga.population[k].is_valid =>
                       /\ ga'.best_fitness # <<>>
                       /\ ga'.best_fitness[1] >= ga.population[k].fitness
        /\ (pc = "ga_loop" /\ pc' = "returned" /\ ga.best_fitness # <<>>) =>
               TotalWeight(result') >= ga.best_fitness[1]

\* At the return the selection weighs at least as much as every feasible
\* member of the population the last generation produced
ReturnStep ==
    (solver = "evolve_schedule" /\ pc = "ga_loop" /\ pc' = "returned") =>
        \A k \in 1..Len(ga.population) :
            ga.population[k].is_valid =>
                TotalWeight(result') >= ga.population[k].fitness

\* C26: when evolve_schedule returns, the weight of the returned selection is
\* at least the weight of every feasible individual of every population held
\* during the run, the initial one and the one produced by each generation,
\* the last included; the recorded best is always feasible and its fitness
\* never decreases from one generation to the next.
C26_BestEver == [][TrackingStep /\ ReturnStep]_vars

\* The number of elite places
EliteCount == Min(config.elite_size, PopSize)

\* One step of a generation keeps the elite
EliteStep ==
    solver = "evolve_schedule" =>
        /\ (pc = "ga_loop" /\ pc' = "ga_breed") =>
               /\ \A i \in 1..EliteCount :
                      /\ ga'.new_population[i] = ga'.population[i]
                      /\ \A k \in 1..Len(ga.population) :
                             \/ ga.population[k].fitness <= ga'.population[i].fitness
                             \/ \E j \in 1..(i - 1) : ga'.population[j] = ga.population[k]
               /\ \A k \in 1..Len(ga.population) :
                      Cardinality({j \in 1..Len(ga.population) :
                                       ga.population[j] = ga.population[k]})
                      = Cardinality({j \in 1..Len(ga'.population) :
                                         ga'.population[j] = ga.population[k]})
        /\ (pc = "ga_breed" /\ pc' = "ga_breed") =>
               \A i \in 1..EliteCount : ga'.new_population[i] = ga.new_population[i]
        /\ (pc = "ga_breed" /\ pc' = "ga_loop") =>
               \A i \in 1..EliteCount :
                   /\ ga'.population[i].chromosome = ga.population[i].chromosome
                   /\ ga'.population[i].fitness = ga.population[i].fitness
                   /\ ga'.population[i].is_valid = ga.population[i].is_valid

\* C27: in every generation the first min(elite_size, population_size)
\* members of the next population have the chromosome, fitness and
\* feasibility flag of the top individuals of the current population ranked
\* by raw fitness, feasible or not, and the crossover and mutation of the
\* other members leave them as they are.
C27_Elitism == [][EliteStep]_vars

\* an infeasible individual at the top of the ranking has been carried into
\* the next population, next to a child that was mutated
C27_Witness ==
    /\ solver = "evolve_schedule"
    /\ pc = "ga_loop"
    /\ ga.generation >= 1
    /\ config.elite_size = 1
    /\ config.population_size = 2
    /\ config.mutation_rate = 10
    /\ ~ga.population[1].is_valid
    /\ ga.population[2].is_valid

\* Activity j is visited before activity i in descending weight/duration
\* order (equal ratios in input order)
RatioBefore(j, i) ==
    LET wj == activities[j].weight
        wi == activities[i].weight
        dj == activities[j].end - activities[j].start
        di == activities[i].end - activities[i].start
    IN  wj * di > wi * dj \/ (wj * di = wi * dj /\ j < i)

\* The list r is the greedy choice: the activities in descending ratio order,
\* each accepted iff it overlaps no activity accepted before it
IsGreedyChoice(r) ==
    LET n == Len(activities)
        Accepted(i) == \E k \in 1..Len(r) : r[k] = activities[i]
        Place(i) == CHOOSE k \in 1..Len(r) : r[k] = activities[i]
    IN  /\ \A k \in 1..Len(r) : \E i \in 1..n : r[k] = activities[i]
        /\ \A k, l \in 1..Len(r) : k # l => r[k] # r[l]
        /\ \A i \in 1..n :
               Accepted(i) <=>
                   \A j \in 1..n :
                       (RatioBefore(j, i) /\ Accepted(j)) =>
                           ~overlaps_with(activities[j], activities[i])
        /\ \A i, j \in 1..n :
               (Accepted(i) /\ Accepted(j) /\ RatioBefore(j, i)) => Place(j) < Place(i)

\* The recorded best changes only to a feasible member of the population,
\* and a return without a recorded best gives the greedy choice
FallbackStep ==
    solver = "evolve_schedule" =>
        /\ (pc = "ga_loop" /\ ga'.best_individual # ga.best_individual) =>
               \E k \in 1..Len(ga.population) :
                   /\ ga.population[k].is_valid
                   /\ ga'.best_individual = <<ga.population[k]>>
        /\ (pc = "ga_loop" /\ pc' = "returned" /\ ga.best_individual = <<>>) =>
               /\ result' = greedy_fallback(activities)
               /\ IsGreedyChoice(result')
               /\ PairwiseFree(result')
               /\ \A i \in 1..Len(activities) :
                      \/ \E k \in 1..Len(result') : result'[k] = activities[i]
                      \/ \E k \in 1..Len(result') :
                             overlaps_with(result'[k], activities[i])

\* C28: when no feasible individual is a member of any population during a
\* run of evolve_schedule, the result is _greedy_fallback(activities): the
\* activities in descending weight/duration order, each accepted iff it
\* overlaps no accepted one; it does not depend on the random choices, is
\* conflict-free and maximal (every rejected activity overlaps an accepted one).
C28_GreedyFallback == [][FallbackStep]_vars

\* no feasible individual was recorded, and the greedy choice passes over the
\* first activity for the second, whose ratio is higher
C28_Witness ==
    /\ Returned("evolve_schedule")
    /\ pc = "returned"
    /\ ga.best_individual = <<>>
    /\ Len(activities) = 2
    /\ overlaps_with(activities[1], activities[2])
    /\ activities[1].weight = activities[2].weight
    /\ result = <<activities[2]>>

\* ------------------------------------------------------------------ C29
\* evolve_schedule on two or more activities
GaCalled == solver = "evolve_schedule" /\ Len(activities) >= 2

\* the passes of the while loop made so far in the current generation: each
\* pass appends two children to the elite copies
OffspringPasses == (Len(ga.new_population) - config.elite_size) \div 2

\* ceil((population_size - elite_size) / 2)
PassLimit == (config.population_size - config.elite_size + 1) \div 2

\* no ValueError, a return only with the generation loop run
\* config.generations times, and no more passes of the offspring loop than
\* the limit
RunsInBounds ==
    GaCalled =>
        /\ pc # "raised"
        /\ pc = "returned" => ga.generation = config.generations
        /\ ga.generation <= config.generations
        /\ pc = "ga_breed" =>
               /\ Len(ga.new_population) = config.elite_size + 2 * OffspringPasses
               /\ OffspringPasses <= PassLimit

\* the loop is left for the return only out of its last generation, whatever
\* the population holds, and every other step at the top of the loop starts a
\* generation
LeavesAtEnd ==
    (GaCalled /\ pc = "ga_loop") =>
        /\ pc' = "returned" => ga.generation = config.generations
        /\ ga.generation < config.generations =>
               pc' = "ga_breed" /\ ga'.generation = ga.generation

\* C29: GA termination. For every list of at least two well-formed
\* activities and every valid configuration, evolve_schedule eventually
\* returns, after running the generation loop exactly config.generations
\* times; it never leaves the loop earlier, converged population or not, and
\* within a generation the offspring loop makes at most
\* ceil((population_size - elite_size) / 2) passes.
C29_Termination ==
    /\ []RunsInBounds
    /\ [][LeavesAtEnd]_vars
    /\ (GaCalled /\ pc = "enter") ~> (pc = "returned")

\* a run of two generations with one elite copy in a population of two, so
\* that the offspring loop overshoots by one, has returned a schedule
C29_Witness ==
    /\ GaCalled
    /\ pc = "returned"
    /\ config.population_size = 2
    /\ config.elite_size = 1
    /\ config.generations = 2
    /\ ga.generation = 2
    /\ result # <<>>

\* ------------------------------------------------------------------ C30
\* Every activity of the list starts at 0 or later
StartsFromZero(acts) == \A k \in 1..Len(acts) : acts[k].start >= 0

====
